---- MODULE Spec2Model ----
(***************************************************************************)
(* Model of tutorial-pdf-video-generator: the Markdown-to-slides parser    *)
(* (slide-builder.mjs), the animated frame-by-frame video export and the   *)
(* clip-based (slides-only / hybrid) video export (export-video.mjs).      *)
(*                                                                         *)
(* Text is a sequence of characters; a character is a one-token string.    *)
(* The accented letters of the source's patterns are the tokens IAcute,    *)
(* iAcute.  Numbers of seconds, frame rates and animation phases are exact *)
(* rationals <<numerator, denominator>>.                                   *)
(***************************************************************************)
EXTENDS Integers, Sequences, FiniteSets, TLC

VARIABLES
    config,             \* the resolved configuration object
    lines,              \* the Markdown source, as md.split('\n') sees it
    files,              \* the paths that exist on disk (existsSync)
    bpc,                \* buildSlides: "start", "loop", "done"
    lineNo,             \* buildSlides: lines consumed by the for loop
    slides,             \* buildSlides: const slides = []
    currentSection,     \* buildSlides: let currentSection
    currentSubsection,  \* buildSlides: let currentSubsection
    buffer,             \* buildSlides: let buffer
    inToc,              \* buildSlides: let inToc
    apc,                \* animated export: position in exportTutorialToVideo
    deck,               \* animated export: const slides = buildSlides(config)
    totalDuration,      \* animated export: const totalDuration
    framesDir,          \* the directory .tutorial-video-frames
    frameIndex,         \* animated export: let frameIndex
    slideIdx,           \* animated export: the loop variable i
    call,               \* the running captureSlideFrames / captureTransitionFrames call
    renders,            \* the (slide, phase) pairs the running call gave renderSlideHTML
    writes,             \* the frame indices screenshots were written under, in order
    browser,            \* the browser of the running export: "none", "open", "closed"
    encoder,            \* the encoder process of runFFmpeg: "idle", "running"
    ffmpegRuns,         \* the encoder processes spawned so far, in order
    lastError,          \* the Error the export threw, NoError while there is none
    cpc,                \* clip-based export: position in exportTutorialToVideo
    scenes,             \* clip-based export: let scenes
    tmpDir,             \* the directory .tutorial-video-tmp
    clipPaths,          \* clip-based export: const clipPaths
    pending,            \* clip-based export: the still or recording awaiting its encode
    manifest,           \* the lines of concat.txt
    warnings,           \* the console.warn calls of the scene loop, in order
    rpc,                \* resolveImage called on its own: "off", "start", "once", "twice"
    rargs,              \* the arguments (href, imagesDir) of the first resolveImage call
    rets,               \* what the resolveImage calls returned, in order
    mpc,                \* the command-line program: "off", "start", "exit-0", "exit-1"
    argv,               \* process.argv.slice(2)
    exportsRun,         \* the exports main started and finished, in order
    hpc,                \* renderSlide called on its own: "off", "start", "done"
    hargs,              \* the arguments (slide, phase) of the renderSlide call
    styles,             \* the style values of the elements renderSlide wrote, in order
    spc,                \* an export followed await by await: "off", "run", "done", "failed"
    program,            \* the asynchronous calls of that export, in program order
    started,            \* how many of them the program has made
    inflight,           \* the operations started and not yet settled
    oplog               \* the starts and the settlements of operations, in order

envVars == <<config, lines, files>>
parseVars == <<bpc, lineNo, slides, currentSection, currentSubsection, buffer, inToc>>
animVars == <<apc, deck, totalDuration, framesDir, frameIndex, slideIdx, call, renders,
              writes, browser>>
encVars == <<encoder, ffmpegRuns, lastError>>
clipVars == <<cpc, scenes, tmpDir, clipPaths, pending, manifest, warnings>>
resolveVars == <<rpc, rargs, rets>>
cliVars == <<mpc, argv, exportsRun>>
renderVars == <<hpc, hargs, styles>>
serialVars == <<spc, program, started, inflight, oplog>>
callVars == <<resolveVars, cliVars, renderVars, serialVars>>
vars == <<envVars, parseVars, animVars, encVars, clipVars, callVars>>

-----------------------------------------------------------------------------
(* Rationals *)

RECURSIVE GCD(_, _)
GCD(a, b) == IF b = 0 THEN a ELSE GCD(b, a % b)

Abs(n) == IF n < 0 THEN -n ELSE n

Rat(n, d) ==
    LET g == GCD(Abs(n), d)
    IN  IF n = 0 THEN <<0, 1>> ELSE <<n \div g, d \div g>>

Whole(n) == <<n, 1>>
RAdd(a, b) == Rat(a[1] * b[2] + b[1] * a[2], a[2] * b[2])
RSub(a, b) == Rat(a[1] * b[2] - b[1] * a[2], a[2] * b[2])
RMul(a, b) == Rat(a[1] * b[1], a[2] * b[2])
RLt(a, b) == a[1] * b[2] < b[1] * a[2]
RLeq(a, b) == a[1] * b[2] <= b[1] * a[2]
\* Math.ceil of a non-negative rational
RCeil(a) == (a[1] + a[2] - 1) \div a[2]
\* a number the configuration does not set
Undefined == <<0, 0>>
\* x || dflt on numbers: 0 (like undefined) is falsy
OrDefault(x, dflt) == IF x[1] = 0 THEN dflt ELSE x
\* x ?? dflt on numbers: only undefined gives way
Coalesce(x, dflt) == IF x = Undefined THEN dflt ELSE x

-----------------------------------------------------------------------------
(* Characters and strings *)

NL == "\n"
IAcute == "I-acute"
iAcute == "i-acute"
oAcute == "o-acute"
Backtick == "backtick"

Uppers == <<"A","B","C","D","E","F","G","H","I","J","K","L","M",
            "N","O","P","Q","R","S","T","U","V","W","X","Y","Z">>
Lowers == <<"a","b","c","d","e","f","g","h","i","j","k","l","m",
            "n","o","p","q","r","s","t","u","v","w","x","y","z">>
Digits == {"0","1","2","3","4","5","6","7","8","9"}

\* the case folding of a pattern's /i flag
toLower(c) ==
    IF \E k \in DOMAIN Uppers : Uppers[k] = c
    THEN Lowers[CHOOSE k \in DOMAIN Uppers : Uppers[k] = c]
    ELSE IF c = IAcute THEN iAcute ELSE c

lowerCase(s) == [k \in DOMAIN s |-> toLower(s[k])]

\* \s
IsWs(c) == c \in {" ", NL}

RECURSIVE trimStart(_)
trimStart(s) == IF s # <<>> /\ IsWs(Head(s)) THEN trimStart(Tail(s)) ELSE s

RECURSIVE trimEnd(_)
trimEnd(s) ==
    IF s # <<>> /\ IsWs(s[Len(s)]) THEN trimEnd(SubSeq(s, 1, Len(s) - 1)) ELSE s

\* String.prototype.trim
trim(s) == trimEnd(trimStart(s))

\* String.prototype.startsWith
startsWith(s, p) == Len(s) >= Len(p) /\ SubSeq(s, 1, Len(p)) = p

\* the first position >= from holding c, 0 when there is none
indexOf(s, c, from) ==
    IF \E k \in from..Len(s) : s[k] = c
    THEN CHOOSE k \in from..Len(s) : s[k] = c /\ \A j \in from..(k - 1) : s[j] # c
    ELSE 0

\* Array.prototype.join
RECURSIVE arrayJoin(_, _)
arrayJoin(ls, sep) ==
    IF ls = <<>> THEN <<>>
    ELSE IF Len(ls) = 1 THEN ls[1]
    ELSE ls[1] \o sep \o arrayJoin(Tail(ls), sep)

\* String.prototype.split on one character
RECURSIVE split(_, _)
split(s, c) ==
    LET k == indexOf(s, c, 1)
    IN  IF k = 0 THEN <<s>>
        ELSE <<SubSeq(s, 1, k - 1)>> \o split(SubSeq(s, k + 1, Len(s)), c)

-----------------------------------------------------------------------------
(* The line patterns of buildSlides *)

\* /^# [^#]/
isH1(line) == Len(line) >= 3 /\ line[1] = "#" /\ line[2] = " " /\ line[3] # "#"

\* /^## /
isH2(line) == startsWith(line, <<"#", "#", " ">>)

\* /^### /
isH3(line) == startsWith(line, <<"#", "#", "#", " ">>)

\* [ÍI]ndice with the i flag, matched at position k
indiceAt(line, k) ==
    /\ k + 5 <= Len(line)
    /\ toLower(line[k]) \in {"i", iAcute}
    /\ lowerCase(SubSeq(line, k + 1, k + 5)) = <<"n", "d", "i", "c", "e">>

\* /[ÍI]ndice/i
hasIndice(line) == \E k \in 1..Len(line) : indiceAt(line, k)

\* /^## .*[ÍI]ndice/i
isTocHeading(line) == isH2(line) /\ \E k \in 4..Len(line) : indiceAt(line, k)

GuiaCompleta ==
    <<"#", "#", " ", "g", "u", iAcute, "a", " ", "c", "o", "m", "p", "l", "e", "t", "a">>

\* /^## Guía completa/i
isSubtitle(line) ==
    /\ Len(line) >= Len(GuiaCompleta)
    /\ lowerCase(SubSeq(line, 1, Len(GuiaCompleta))) = GuiaCompleta

-----------------------------------------------------------------------------
(* Paths (path.join, path.resolve, path.dirname) on the hrefs of LinePool: *)
(* no "." or ".." segment and no trailing slash occurs in them.            *)

\* path.normalize: runs of slashes collapse to one
RECURSIVE normalize(_)
normalize(p) ==
    IF Len(p) < 2 THEN p
    ELSE IF p[1] = "/" /\ p[2] = "/" THEN normalize(Tail(p))
    ELSE <<p[1]>> \o normalize(Tail(p))

\* path.join(a, b)
pathJoin(a, b) == normalize(a \o <<"/">> \o b)

Cwd == <<"/", "w">>

\* path.resolve(href): absolute paths stay, relative ones hang off the cwd
pathResolve(href) ==
    IF href # <<>> /\ href[1] = "/" THEN normalize(href) ELSE pathJoin(Cwd, href)

RECURSIVE lastIndexOf(_, _)
lastIndexOf(s, c) ==
    IF s = <<>> THEN 0
    ELSE IF s[Len(s)] = c THEN Len(s)
    ELSE lastIndexOf(SubSeq(s, 1, Len(s) - 1), c)

\* path.dirname
dirname(p) ==
    LET k == lastIndexOf(p, "/")
    IN  IF k = 0 THEN <<".">> ELSE IF k = 1 THEN <<"/">> ELSE SubSeq(p, 1, k - 1)

\* fs.existsSync: a relative path is looked up from the working directory
existsSync(p) == pathResolve(p) \in files

\* the candidates of resolveImage, in the order the loop tries them
imageCandidates(href, imagesDir) ==
    LET candidates == <<pathJoin(imagesDir, href), pathResolve(href)>>
    IN  IF startsWith(href, <<"S", "S", "/">>)
        THEN <<pathJoin(dirname(imagesDir), href)>> \o candidates   \* unshift
        ELSE candidates

NoPath == <<"null">>

RECURSIVE firstExisting(_)
firstExisting(candidates) ==
    IF candidates = <<>> THEN NoPath
    ELSE IF existsSync(Head(candidates)) THEN Head(candidates)
    ELSE firstExisting(Tail(candidates))

resolveImage(href, imagesDir) == firstExisting(imageCandidates(href, imagesDir))

-----------------------------------------------------------------------------
(* finalizeContentSlide *)

NoMatch == [found |-> FALSE, alt |-> <<>>, href |-> <<>>, end |-> 0]

\* /!\[([^\]]*)\]\(([^)]+)\)/ matched at position k of s
imgMatchAt(s, k) ==
    IF k + 1 <= Len(s) /\ s[k] = "!" /\ s[k + 1] = "["
    THEN LET j == indexOf(s, "]", k + 2)
         IN  IF j = 0 \/ j + 1 > Len(s) THEN NoMatch
             ELSE IF s[j + 1] # "(" THEN NoMatch
             ELSE LET e == indexOf(s, ")", j + 2)
                  IN  IF e = 0 \/ e = j + 2 THEN NoMatch
                      ELSE [found |-> TRUE, alt |-> SubSeq(s, k + 2, j - 1),
                            href |-> SubSeq(s, j + 2, e - 1), end |-> e]
    ELSE NoMatch

\* the successive matches of imgRegex.exec(text), from position k on
RECURSIVE imageRefs(_, _)
imageRefs(s, k) ==
    IF k > Len(s) THEN <<>>
    ELSE LET m == imgMatchAt(s, k)
         IN  IF m.found THEN <<[alt |-> m.alt, href |-> m.href]>> \o imageRefs(s, m.end + 1)
             ELSE imageRefs(s, k + 1)

\* text.replace(/!\[([^\]]*)\]\([^)]+\)/g, '')
RECURSIVE removeImages(_, _)
removeImages(s, k) ==
    IF k > Len(s) THEN <<>>
    ELSE LET m == imgMatchAt(s, k)
         IN  IF m.found THEN removeImages(s, m.end + 1)
             ELSE <<s[k]>> \o removeImages(s, k + 1)

\* the loop over the matches: only resolved references are pushed
RECURSIVE resolvedImages(_, _)
resolvedImages(refs, imagesDir) ==
    IF refs = <<>> THEN <<>>
    ELSE LET resolved == resolveImage(Head(refs).href, imagesDir)
         IN  (IF resolved # NoPath THEN <<[alt |-> Head(refs).alt, path |-> resolved]>>
              ELSE <<>>) \o resolvedImages(Tail(refs), imagesDir)

VersionTag == <<"*", "*", "V", "e", "r", "s", "i", oAcute, "n", ":", "*", "*">>
ClasificacionTag ==
    <<"*", "*", "C", "l", "a", "s", "i", "f", "i", "c", "a", "c", "i", oAcute, "n", ":", "*", "*">>

\* the three line-anchored (m flag) replacements applied to one line
stripMetaLine(l) ==
    IF startsWith(l, VersionTag) THEN <<>>
    ELSE IF startsWith(l, ClasificacionTag) THEN <<>>
    ELSE IF l = <<"-", "-", "-">> THEN <<>>
    ELSE l

RECURSIVE stripMetaLines(_)
stripMetaLines(ls) ==
    IF ls = <<>> THEN <<>> ELSE <<stripMetaLine(Head(ls))>> \o stripMetaLines(Tail(ls))

\* the length of the run of characters satisfying \s (ws) or \n (~ws) at position k
RECURSIVE runFrom(_, _, _)
runFrom(s, k, ws) ==
    IF k <= Len(s) /\ (IF ws THEN IsWs(s[k]) ELSE s[k] = NL)
    THEN 1 + runFrom(s, k + 1, ws) ELSE 0

\* .replace(/\n{3,}/g, '\n\n')
RECURSIVE collapseBlankLines(_, _)
collapseBlankLines(s, k) ==
    IF k > Len(s) THEN <<>>
    ELSE LET n == runFrom(s, k, FALSE)
         IN  IF n >= 3 THEN <<NL, NL>> \o collapseBlankLines(s, k + n)
             ELSE <<s[k]>> \o collapseBlankLines(s, k + 1)

cleanTextOf(text) ==
    trim(collapseBlankLines(
        arrayJoin(stripMetaLines(split(removeImages(text, 1), NL)), <<NL>>), 1))

atLineStart(s, k) == k = 1 \/ s[k - 1] = NL

\* the end of the line holding position k
lineEnd(s, k) ==
    LET n == indexOf(s, NL, k) IN IF n = 0 THEN Len(s) ELSE n - 1

RECURSIVE digitRun(_, _)
digitRun(s, k) == IF k <= Len(s) /\ s[k] \in Digits THEN 1 + digitRun(s, k + 1) ELSE 0

\* the position after the list marker at k: [-*] for bullets, \d+\. for steps;
\* 0 when no marker starts at k
markerEnd(s, k, numbered) ==
    IF numbered
    THEN LET d == digitRun(s, k)
         IN  IF d >= 1 /\ k + d <= Len(s) /\ s[k + d] = "." THEN k + d + 1 ELSE 0
    ELSE IF k <= Len(s) /\ s[k] \in {"-", "*"} THEN k + 1 ELSE 0

\* /^[-*]\s+(.+)$/gm and /^\d+\.\s+(.+)$/gm on trimmed text (a run of \s is then
\* always followed by a character that is no \s): the successive captures, trimmed
RECURSIVE listItems(_, _, _)
listItems(s, k, numbered) ==
    IF k > Len(s) THEN <<>>
    ELSE LET a == IF atLineStart(s, k) THEN markerEnd(s, k, numbered) ELSE 0
             w == IF a = 0 THEN 0 ELSE runFrom(s, a, TRUE)
         IN  IF a # 0 /\ w >= 1 /\ a + w <= Len(s)
             THEN <<trim(SubSeq(s, a + w, lineEnd(s, a + w)))>>
                  \o listItems(s, lineEnd(s, a + w) + 1, numbered)
             ELSE listItems(s, k + 1, numbered)

RECURSIVE hashRun(_, _)
hashRun(s, k) == IF k <= Len(s) /\ s[k] = "#" THEN 1 + hashRun(s, k + 1) ELSE 0

\* the filter of the prose lines
isProseLine(l) ==
    /\ trim(l) # <<>>
    /\ ~(Len(l) >= 2 /\ l[1] \in {"-", "*"} /\ IsWs(l[2]))                 \* /^[-*]\s/
    /\ ~(LET a == markerEnd(l, 1, TRUE) IN a # 0 /\ a <= Len(l) /\ IsWs(l[a]))  \* /^\d+\.\s/
    /\ ~(Len(l) >= 1 /\ l[1] = ">")                                        \* /^>/
    /\ ~startsWith(l, <<Backtick, Backtick, Backtick>>)                   \* a code fence
    /\ ~(LET h == hashRun(l, 1) IN h >= 1 /\ h + 1 <= Len(l) /\ IsWs(l[h + 1])) \* /^#+\s/

RECURSIVE proseLines(_)
proseLines(ls) ==
    IF ls = <<>> THEN <<>>
    ELSE (IF isProseLine(Head(ls)) THEN <<Head(ls)>> ELSE <<>>) \o proseLines(Tail(ls))

\* .replace(/\s+/g, ' ')
RECURSIVE collapseSpaces(_, _)
collapseSpaces(s, k) ==
    IF k > Len(s) THEN <<>>
    ELSE LET n == runFrom(s, k, TRUE)
         IN  IF n >= 1 THEN <<" ">> \o collapseSpaces(s, k + n)
             ELSE <<s[k]>> \o collapseSpaces(s, k + 1)

ProseMax == 200
Ellipsis == "..."

proseOf(cleanText) ==
    LET prose == trim(collapseSpaces(arrayJoin(proseLines(split(cleanText, NL)), <<" ">>), 1))
    IN  IF Len(prose) > ProseMax THEN SubSeq(prose, 1, ProseMax) \o <<Ellipsis>> ELSE prose

ImageBonus == 2

\* const imageDuration = images.length > 1 ? defaultDuration + 2 : defaultDuration
imageDurationOf(images, defaultDuration) ==
    IF Len(images) > 1 THEN RAdd(defaultDuration, Whole(ImageBonus)) ELSE defaultDuration

finalizeContentSlide(sub, buf, imagesDir, defaultDuration) ==
    LET text == trim(arrayJoin(buf, <<NL>>))
        images == resolvedImages(imageRefs(text, 1), imagesDir)
        cleanText == cleanTextOf(text)
        imageDuration == imageDurationOf(images, defaultDuration)
    IN  [type |-> "content",
         title |-> sub.title,
         parentSection |-> sub.parentSection,
         text |-> cleanText,
         prose |-> proseOf(cleanText),
         bullets |-> listItems(cleanText, 1, FALSE),
         steps |-> listItems(cleanText, 1, TRUE),
         images |-> images,
         duration |-> imageDuration]

-----------------------------------------------------------------------------
(* buildSlides *)

Null == <<"null">>                  \* currentSection = null
NoSubsection == [type |-> "null"]   \* currentSubsection = null

SlideDefault == 6
CoverDefault == 8
SectionTitleDefault == 4
TocDefault == 6
ClosingDefault == 6

Tutorial == <<"Tutorial">>
IndiceDeContenidos == <<"Indice de Contenidos">>

\* x || dflt on strings: the empty string is falsy
OrText(x, dflt) == IF x = <<>> THEN dflt ELSE x

imagesDirOf(cfg) == OrText(cfg.imagesDir, dirname(cfg.input))
defaultDurationOf(cfg) == OrDefault(cfg.video.slideDuration, Whole(SlideDefault))

\* 1. Cover slide (the fields that are only copied through are left out)
coverSlide(cfg) ==
    [type |-> "cover",
     title |-> OrText(cfg.cover.title, Tutorial),
     footer |-> cfg.cover.footer,
     duration |-> OrDefault(cfg.video.coverDuration, Whole(CoverDefault))]

initialSlidesAlways(cfg) == <<coverSlide(cfg)>>

initialSlides(cfg) == IF cfg.cover.present THEN <<coverSlide(cfg)>> ELSE <<>>

\* /^(\d+)\./
extractSectionNumber(title) ==
    LET d == digitRun(title, 1)
    IN  IF d >= 1 /\ d + 1 <= Len(title) /\ title[d + 1] = "."
        THEN SubSeq(title, 1, d) ELSE <<>>

sectionTitleSlide(title, cfg) ==
    [type |-> "section-title",
     title |-> title,
     sectionNumber |-> extractSectionNumber(title),
     duration |-> OrDefault(cfg.video.sectionTitleDuration, Whole(SectionTitleDefault))]

\* "Flush previous subsection" of the H2 branch
flushAtH2(st, cfg) ==
    IF st.currentSubsection # NoSubsection
    THEN [st EXCEPT
            !.slides = Append(@, finalizeContentSlide(st.currentSubsection, st.buffer,
                                    imagesDirOf(cfg), defaultDurationOf(cfg))),
            !.buffer = <<>>,
            !.currentSubsection = NoSubsection]
    ELSE st

\* "Flush previous subsection" of the H3 branch
flushAtH3(st, cfg) ==
    IF st.currentSubsection # NoSubsection
    THEN [st EXCEPT
            !.slides = Append(@, finalizeContentSlide(st.currentSubsection, st.buffer,
                                    imagesDirOf(cfg), defaultDurationOf(cfg))),
            !.buffer = <<>>]
    ELSE st

\* an H2 branch that pushes the section title before it flushes the subsection
onH2BeforeFlush(st, line, cfg) ==
    LET title == trim(SubSeq(line, 4, Len(line)))
    IN  flushAtH2([st EXCEPT !.currentSection = title,
                             !.slides = Append(@, sectionTitleSlide(title, cfg))], cfg)

\* the H2 branch
onH2(st, line, cfg) ==
    LET flushed == flushAtH2(st, cfg)
        title == trim(SubSeq(line, 4, Len(line)))
    IN  [flushed EXCEPT !.currentSection = title,
                        !.slides = Append(@, sectionTitleSlide(title, cfg))]

\* the H3 branch
onH3(st, line, cfg) ==
    LET flushed == flushAtH3(st, cfg)
        title == trim(SubSeq(line, 5, Len(line)))
    IN  [flushed EXCEPT !.currentSubsection =
            [type |-> "content", title |-> title, parentSection |-> st.currentSection]]

\* an iteration that lets the lines after an index heading through
parseLineThroughToc(st, line, cfg) ==
    IF isH1(line) \/ isTocHeading(line) \/ isSubtitle(line) THEN st
    ELSE IF isH2(line) THEN onH2(st, line, cfg)
    ELSE IF isH3(line) THEN onH3(st, line, cfg)
    ELSE [st EXCEPT !.buffer = Append(@, line)]

\* one iteration of for (const line of lines)
parseLine(st, line, cfg) ==
    IF isH1(line) THEN st
    ELSE IF isTocHeading(line) THEN [st EXCEPT !.inToc = TRUE]
    ELSE IF st.inToc /\ ~(isH2(line) /\ ~hasIndice(line)) THEN st
    ELSE LET st1 == [st EXCEPT !.inToc = FALSE]
         IN  IF isSubtitle(line) THEN st1
             ELSE IF isH2(line) THEN onH2(st1, line, cfg)
             ELSE IF isH3(line) THEN onH3(st1, line, cfg)
             ELSE [st1 EXCEPT !.buffer = Append(@, line)]

\* "Flush last subsection"
flushLast(st, cfg) ==
    IF st.currentSubsection # NoSubsection
    THEN Append(st.slides, finalizeContentSlide(st.currentSubsection, st.buffer,
                                imagesDirOf(cfg), defaultDurationOf(cfg)))
    ELSE st.slides

\* slides.filter((s) => s.type === 'section-title').map((s) => s.title)
RECURSIVE sectionTitlesOf(_)
sectionTitlesOf(ss) ==
    IF ss = <<>> THEN <<>>
    ELSE (IF Head(ss).type = "section-title" THEN <<Head(ss).title>> ELSE <<>>)
         \o sectionTitlesOf(Tail(ss))

\* Array.prototype.splice(start, 0, item)
spliceIn(arr, start, item) ==
    LET k == IF start > Len(arr) THEN Len(arr) ELSE start
    IN  SubSeq(arr, 1, k) \o <<item>> \o SubSeq(arr, k + 1, Len(arr))

tocSlide(items, cfg) ==
    [type |-> "toc",
     title |-> OrText(cfg.tocTitle, IndiceDeContenidos),
     items |-> items,
     duration |-> OrDefault(cfg.video.tocDuration, Whole(TocDefault))]

withTocInFront(ss, cfg) ==
    LET sectionTitles == sectionTitlesOf(ss)
    IN  IF Len(sectionTitles) > 0 THEN spliceIn(ss, 0, tocSlide(sectionTitles, cfg)) ELSE ss

\* 3. TOC slide
withToc(ss, cfg) ==
    LET sectionTitles == sectionTitlesOf(ss)
    IN  IF Len(sectionTitles) > 0 THEN spliceIn(ss, 1, tocSlide(sectionTitles, cfg)) ELSE ss

\* 4. Closing slide
closingSlide(cfg) ==
    [type |-> "closing",
     title |-> IF cfg.cover.present THEN cfg.cover.footer ELSE <<>>,
     subtitle |-> IF cfg.cover.present THEN OrText(cfg.cover.title, Tutorial) ELSE Tutorial,
     duration |-> OrDefault(cfg.video.closingDuration, Whole(ClosingDefault))]

\* the tail of buildSlides: flush, TOC, closing
finishSlides(st, cfg) == Append(withToc(flushLast(st, cfg), cfg), closingSlide(cfg))

parserStart(cfg) ==
    [slides |-> initialSlides(cfg), currentSection |-> Null,
     currentSubsection |-> NoSubsection, buffer |-> <<>>, inToc |-> FALSE]

RECURSIVE parseAll(_, _, _)
parseAll(st, ls, cfg) ==
    IF ls = <<>> THEN st ELSE parseAll(parseLine(st, Head(ls), cfg), Tail(ls), cfg)

\* buildSlides(config) as the callers see it
buildSlides(cfg, md) == finishSlides(parseAll(parserStart(cfg), md, cfg), cfg)

-----------------------------------------------------------------------------
(* Inputs *)

MaxLines == 3

LineTitle == <<"#", " ", "T">>
LineIndice == <<"#", "#", " ", IAcute, "n", "d", "i", "c", "e">>
LineBullet == <<"-", " ", "a">>
LineIntro == <<"#", "#", " ", "1", ".", " ", "I", "n", "t", "r", "o">>
LineSetup == <<"#", "#", " ", "S", "e", "t", "u", "p">>
LineSub == <<"#", "#", "#", " ", "1", ".", "1", " ", "S", "u", "b">>
LineHello == <<"H", "e", "l", "l", "o", " ", "w", "o", "r", "l", "d">>
LineImage == <<"!", "[", "x", "]", "(", "a", ".", "p", "n", "g", ")">>
LineLostImage == <<"!", "[", "n", "]", "(", "n", "o", ".", "p", "n", "g", ")">>
LineEmpty == <<>>

LinePool == {LineTitle, LineIndice, LineBullet, LineIntro, LineSetup, LineSub,
             LineHello, LineImage, LineLostImage, LineEmpty}

\* the scenario document: # T / ## Indice / - a / ## 1. Intro / ### 1.1 Sub / Hello world
ScenarioDoc == <<LineTitle, LineIndice, LineBullet, LineIntro, LineSub, LineHello>>

LineIndiceUpper == <<"#", "#", " ", "I", "N", "D", "I", "C", "E">>
LineGuia ==
    <<"#", "#", " ", "G", "u", iAcute, "a", " ", "c", "o", "m", "p", "l", "e", "t", "a">>

\* a subsection, an index block with an H3 and a second index heading in it, then
\* two sections
IndexDoc == <<LineSub, LineHello, LineIndiceUpper, LineSub, LineIndice, LineBullet,
              LineSetup, LineSub, LineHello, LineIntro>>

\* an index block that the subtitle line ends
SubtitleDoc == <<LineIndice, LineBullet, LineGuia, LineSub, LineHello>>

Docs == UNION {[1..n -> LinePool] : n \in 1..MaxLines}
            \cup {ScenarioDoc, IndexDoc, SubtitleDoc}

InputPath == <<"/", "d", "/", "t", ".", "m", "d">>
OutputPdf == <<"/", "d", "/", "t", ".", "p", "d", "f">>
OutputMp4 == <<"/", "d", "/", "t", ".", "m", "p", "4">>
ImagesDir == <<"/", "d", "/", "S", "S">>
ImageOnDisk == <<"/", "d", "/", "S", "S", "/", "a", ".", "p", "n", "g">>

Disks == {{InputPath, ImageOnDisk}, {InputPath}, {}}

NoCover == [present |-> FALSE, title |-> <<>>, footer |-> <<>>]
Covers == {NoCover, [present |-> TRUE, title |-> <<"T">>, footer |-> <<>>]}

\* config.video.scenes while no module is named
NoScenesModule == [kind |-> "unset", list |-> <<>>]

\* config.video; the durations other than slideDuration are left unset, and so are
\* output, mode and scenes
VideoCfg(slideDuration, fps, transition, transitionDuration) ==
    [slideDuration |-> slideDuration, coverDuration |-> Undefined,
     sectionTitleDuration |-> Undefined, tocDuration |-> Undefined,
     closingDuration |-> Undefined, fps |-> fps, transition |-> transition,
     transitionDuration |-> transitionDuration, mode |-> "", scenes |-> NoScenesModule]

Config(cover, video) ==
    [cover |-> cover, input |-> InputPath, output |-> OutputPdf, imagesDir |-> ImagesDir,
     tocTitle |-> <<>>, video |-> video]

ParseConfigs ==
    {Config(c, VideoCfg(d, Undefined, "", Undefined)) :
        c \in Covers, d \in {Undefined, Whole(4)}}

-----------------------------------------------------------------------------
(* buildSlides, one loop iteration per step *)

NoDirectory == [exists |-> FALSE, frames |-> {}]
NoCall == [kind |-> "none", slide |-> 0, totalFrames |-> 0, f |-> 0, startFrame |-> 0,
           frameIndex |-> 0, returned |-> FALSE]

ParseIdle ==
    /\ lineNo = 0
    /\ slides = <<>>
    /\ currentSection = Null
    /\ currentSubsection = NoSubsection
    /\ buffer = <<>>
    /\ inToc = FALSE

AnimIdle ==
    /\ deck = <<>>
    /\ totalDuration = Whole(0)
    /\ frameIndex = 0
    /\ slideIdx = 0
    /\ call = NoCall
    /\ renders = <<>>
    /\ writes = <<>>
    /\ browser = "none"

\* an Error, by kind; those of runFFmpeg also name the label and the run (the index
\* in ffmpegRuns), and the part of the error stream the message quotes
Err(kind) == [kind |-> kind, label |-> "", run |-> 0, stderr |-> 0, tail |-> <<0, 0>>]
NoError == Err("none")

EncoderIdle ==
    /\ encoder = "idle"
    /\ ffmpegRuns = <<>>
    /\ lastError = NoError

NoPending == [kind |-> "none", out |-> <<>>]
NoTmpDir == [exists |-> FALSE, entries |-> {}]

NoArgs == [href |-> <<>>, imagesDir |-> <<>>]

NoRender == [slide |-> [type |-> "none"], phase |-> Undefined]

CallIdle ==
    /\ rpc = "off"
    /\ rargs = NoArgs
    /\ rets = <<>>
    /\ mpc = "off"
    /\ argv = <<>>
    /\ exportsRun = <<>>
    /\ hpc = "off"
    /\ hargs = NoRender
    /\ styles = <<>>
    /\ spc = "off"
    /\ program = <<>>
    /\ started = 0
    /\ inflight = {}
    /\ oplog = <<>>

ClipIdle ==
    /\ scenes = <<>>
    /\ clipPaths = <<>>
    /\ pending = NoPending
    /\ manifest = <<>>
    /\ warnings = <<>>

InitParse ==
    /\ config \in ParseConfigs
    /\ lines \in Docs
    /\ files \in Disks
    /\ bpc = "start"
    /\ ParseIdle
    /\ apc = "off"
    /\ framesDir = NoDirectory
    /\ AnimIdle
    /\ EncoderIdle
    /\ cpc = "off"
    /\ tmpDir = NoTmpDir
    /\ ClipIdle
    /\ CallIdle

parserState ==
    [slides |-> slides, currentSection |-> currentSection,
     currentSubsection |-> currentSubsection, buffer |-> buffer, inToc |-> inToc]

\* readFileSync, split, and the cover slide
BuildBegin ==
    /\ bpc = "start"
    /\ IF existsSync(config.input)
       THEN /\ bpc' = "loop"
            /\ slides' = initialSlides(config)
       ELSE /\ bpc' = "threw"        \* readFileSync throws ENOENT
            /\ UNCHANGED slides
    /\ UNCHANGED <<envVars, lineNo, currentSection, currentSubsection, buffer, inToc>>
    /\ UNCHANGED <<animVars, encVars, clipVars, callVars>>

ParseLine ==
    /\ bpc = "loop"
    /\ lineNo < Len(lines)
    /\ LET st == parseLine(parserState, lines[lineNo + 1], config)
       IN  /\ slides' = st.slides
           /\ currentSection' = st.currentSection
           /\ currentSubsection' = st.currentSubsection
           /\ buffer' = st.buffer
           /\ inToc' = st.inToc
    /\ lineNo' = lineNo + 1
    /\ UNCHANGED <<envVars, bpc>>
    /\ UNCHANGED <<animVars, encVars, clipVars, callVars>>

\* flush the last subsection, insert the TOC, push the closing slide, return
BuildFinish ==
    /\ bpc = "loop"
    /\ lineNo = Len(lines)
    /\ slides' = finishSlides(parserState, config)
    /\ bpc' = "done"
    /\ UNCHANGED <<envVars, lineNo, currentSection, currentSubsection, buffer, inToc>>
    /\ UNCHANGED <<animVars, encVars, clipVars, callVars>>

NextParse == BuildBegin \/ ParseLine \/ BuildFinish

SpecParse == InitParse /\ [][NextParse]_vars

-----------------------------------------------------------------------------
(* Properties of buildSlides *)

Returned == bpc = "done"

indicesOfType(ss, t) == {k \in DOMAIN ss : ss[k].type = t}

RECURSIVE isSubsequence(_, _)
isSubsequence(a, b) ==
    IF a = <<>> THEN TRUE
    ELSE IF b = <<>> THEN FALSE
    ELSE IF Head(a) = Head(b) THEN isSubsequence(Tail(a), Tail(b))
    ELSE isSubsequence(a, Tail(b))

\* the titles of the H2 lines of the source, in source order
RECURSIVE h2TitlesOf(_)
h2TitlesOf(ls) ==
    IF ls = <<>> THEN <<>>
    ELSE (IF isH2(Head(ls)) THEN <<trim(SubSeq(Head(ls), 4, Len(Head(ls))))>> ELSE <<>>)
         \o h2TitlesOf(Tail(ls))

sectionTitlesInOrder == [k \in 1..Cardinality(indicesOfType(slides, "section-title")) |->
    slides[CHOOSE i \in indicesOfType(slides, "section-title") :
             Cardinality({j \in indicesOfType(slides, "section-title") : j <= i}) = k].title]

\* C1: an input with N >= 1 section-title slides has exactly one toc slide, its items
\* are the N section titles in source order, and with a cover configured the toc
\* slide is at index 1 (right after the cover); an input with no section-title
\* slide has no toc slide.
C1_TocSlide ==
    Returned =>
        IF indicesOfType(slides, "section-title") # {}
        THEN /\ Cardinality(indicesOfType(slides, "toc")) = 1
             /\ \A k \in indicesOfType(slides, "toc") :
                    /\ slides[k].items = sectionTitlesInOrder
                    /\ isSubsequence(slides[k].items, h2TitlesOf(lines))
                    /\ config.cover.present => k = 2
        ELSE indicesOfType(slides, "toc") = {}

C1_Witness ==
    /\ Returned
    /\ config.cover.present
    /\ Cardinality(indicesOfType(slides, "section-title")) >= 2
    /\ slides[2].type = "toc"
    /\ Len(slides[2].items) >= 2
    /\ slides[2].items[1] # slides[2].items[2]

\* C2: the returned sequence holds exactly one closing slide, as its last element;
\* exactly one cover slide, at index 0, when config.cover is set, and none otherwise.
C2_CoverAndClosing ==
    Returned =>
        /\ indicesOfType(slides, "closing") = {Len(slides)}
        /\ indicesOfType(slides, "cover") = IF config.cover.present THEN {1} ELSE {}

C2_Witness ==
    /\ Returned
    /\ lines = <<LineEmpty>>
    /\ config.cover.present
    /\ Len(slides) = 2

\* the slides after the optional cover
afterCover(ss) == IF ss # <<>> /\ ss[1].type = "cover" THEN Tail(ss) ELSE ss

ignoredText == {LineTitle, LineIndice, LineBullet, <<"a">>}

\* C3: the six-line scenario document yields, in this order, an optional cover, a toc
\* slide with items ["1. Intro"], a section-title slide "1. Intro" with sectionNumber
\* "1", a content slide "1.1 Sub" with prose "Hello world", and a closing slide; the H1
\* line, the index heading and the bullet of the index block appear in no slide.
C3_Scenario ==
    (Returned /\ lines = ScenarioDoc) =>
        LET ss == afterCover(slides)
        IN  /\ Len(ss) = 4
            /\ ss[1].type = "toc"
            /\ ss[1].items = <<trim(SubSeq(LineIntro, 4, Len(LineIntro)))>>
            /\ ss[2].type = "section-title"
            /\ ss[2].title = <<"1", ".", " ", "I", "n", "t", "r", "o">>
            /\ ss[2].sectionNumber = <<"1">>
            /\ ss[3].type = "content"
            /\ ss[3].title = <<"1", ".", "1", " ", "S", "u", "b">>
            /\ ss[3].prose = LineHello
            /\ ss[3].text \notin ignoredText
            /\ ss[3].bullets = <<>>
            /\ ss[4].type = "closing"

plainH2 == {LineIntro, LineSetup}

\* C4: a document of one H2 heading followed by one H3 heading, with or without a
\* cover, yields a section-title slide directly followed by a content slide whose
\* bullets, steps and prose are empty.
C4_SectionThenContent ==
    (Returned /\ Len(lines) = 2 /\ lines[1] \in plainH2 /\ lines[2] = LineSub) =>
        \E k \in 1..(Len(slides) - 1) :
            /\ slides[k].type = "section-title"
            /\ slides[k + 1].type = "content"
            /\ slides[k + 1].bullets = <<>>
            /\ slides[k + 1].steps = <<>>
            /\ slides[k + 1].prose = <<>>

\* the lines after a heading up to the next H2 or H3 heading
RECURSIVE bodyOf(_)
bodyOf(ls) ==
    IF ls = <<>> \/ isH2(Head(ls)) \/ isH3(Head(ls)) THEN <<>>
    ELSE <<Head(ls)>> \o bodyOf(Tail(ls))

\* the j-th element of a set of positions
nth(S, j) == CHOOSE i \in S : Cardinality({x \in S : x <= i}) = j

h3Positions == {k \in DOMAIN lines : isH3(lines[k])}

\* the image references of the subsection whose H3 heading is line k that resolve to
\* an existing file
ownImages(k) ==
    resolvedImages(imageRefs(trim(arrayJoin(bodyOf(SubSeq(lines, k + 1, Len(lines))), <<NL>>)), 1),
                   imagesDirOf(config))

noIndexBlock == \A k \in DOMAIN lines : ~isTocHeading(lines[k])

\* C5: in a document without an index block, the content slide of every subsection
\* lasts defaultSlideDuration + 2 when more than one image reference of that
\* subsection resolved to an existing file, and defaultSlideDuration when none or one
\* did; a reference that does not resolve never counts.
C5_ImageBonus ==
    (Returned /\ noIndexBlock) =>
        /\ Cardinality(indicesOfType(slides, "content")) = Cardinality(h3Positions)
        /\ \A j \in 1..Cardinality(h3Positions) :
              slides[nth(indicesOfType(slides, "content"), j)].duration =
                  IF Len(ownImages(nth(h3Positions, j))) > 1
                  THEN RAdd(defaultDurationOf(config), Whole(2))
                  ELSE defaultDurationOf(config)

-----------------------------------------------------------------------------
(* The animated export: exportTutorialToVideo, frame by frame *)

MaxFps == 3

\* config.output.replace(/\.pdf$/i, '.mp4')
outputOf(cfg) ==
    LET o == cfg.output
        n == Len(o)
    IN  IF n >= 4 /\ lowerCase(SubSeq(o, n - 3, n)) = <<".", "p", "d", "f">>
        THEN SubSeq(o, 1, n - 4) \o <<".", "m", "p", "4">>
        ELSE o

\* the argument list of one spawned encoder, as far as the exports differ in it
ffmpegRun(label, input, duration, out) ==
    [label |-> label, input |-> input, duration |-> duration, out |-> out]

FramePattern == <<"frame-%07d.png">>

StderrTailAnimated == 500
StderrTail == 1500

\* the lengths of the error stream an encoder may have written
StderrLengths == {0, 499, 501, 1500, 1501}

sliceFromStart(n, k) == <<0, IF n > k THEN k ELSE n>>

\* stderr.slice(-k) of an error stream of n characters, as the positions [from, to)
sliceFromEnd(n, k) == <<IF n > k THEN n - k ELSE 0, n>>

\* the Error runFFmpeg rejects with: on a status other than 0 the label and the end
\* of the error stream, on the 'error' event the message of the spawn error
encoderError(outcome, label, run, n, k) ==
    IF outcome = "ffmpeg-failed"
    THEN [kind |-> outcome, label |-> label, run |-> run, stderr |-> n,
          tail |-> sliceFromEnd(n, k)]
    ELSE [Err(outcome) EXCEPT !.label = label, !.run = run]

\* how an encoder process ends: exit status 0, another exit status, or the 'error'
\* event of a binary that cannot be started
EncoderOutcomes == {"ok", "ffmpeg-failed", "ffmpeg-not-found"}

TransitionDefault == Rat(1, 2)      \* videoCfg.transitionDuration ?? 0.5
EntryShare == Rat(1, 5)             \* totalFrames * 0.20
HoldShare == Rat(9, 10)             \* totalFrames * 0.90
FadeDepth == Rat(15, 100)           \* t * 0.15

FpsDefault == 144

\* videoCfg.fps || 144
fpsOf(cfg) == OrDefault(cfg.video.fps, Whole(FpsDefault))
transitionDurationOf(cfg) == Coalesce(cfg.video.transitionDuration, TransitionDefault)
transitionOf(cfg) == IF cfg.video.transition = "" THEN "crossfade" ELSE cfg.video.transition

frameCountRoundedDown(duration, fps) == RMul(duration, fps)[1] \div RMul(duration, fps)[2]

\* Math.ceil(duration * fps)
frameCount(duration, fps) == RCeil(RMul(duration, fps))

animInFramesOf(totalFrames) == RCeil(RMul(Whole(totalFrames), EntryShare))
animHoldEndOf(totalFrames) == RCeil(RMul(Whole(totalFrames), HoldShare))

RCube(a) == RMul(a, RMul(a, a))

\* the phase of frame f of a slide of totalFrames frames
slidePhase(f, totalFrames) ==
    LET animInFrames == animInFramesOf(totalFrames)
        animHoldEnd == animHoldEndOf(totalFrames)
    IN  IF f < animInFrames
        THEN RSub(Whole(1), RCube(RSub(Whole(1), Rat(f, animInFrames))))
        ELSE IF f < animHoldEnd THEN Whole(1)
        ELSE RSub(Whole(1), RMul(Rat(f - animHoldEnd, totalFrames - animHoldEnd), FadeDepth))

\* the eased phase of frame f of a transition of totalFrames frames
transitionPhase(f, totalFrames) ==
    LET t == Rat(f, IF totalFrames - 1 = 0 THEN 1 ELSE totalFrames - 1)
        u == RAdd(RMul(Whole(-2), t), Whole(2))
    IN  IF RLt(t, Rat(1, 2))
        THEN RMul(Whole(2), RMul(t, t))
        ELSE RSub(Whole(1), RMul(RMul(u, u), Rat(1, 2)))

RECURSIVE sumDurations(_)
sumDurations(ss) ==
    IF ss = <<>> THEN Whole(0) ELSE RAdd(Head(ss).duration, sumDurations(Tail(ss)))

estimateCountingEverySlide(ss, cfg) ==
    RAdd(sumDurations(ss), RMul(Whole(Len(ss)), transitionDurationOf(cfg)))

\* contentDuration + transitionsDuration
estimatedDuration(ss, cfg) ==
    RAdd(sumDurations(ss), RMul(Whole(Len(ss) - 1), transitionDurationOf(cfg)))

StaleFrames == {[index |-> 0, fresh |-> FALSE], [index |-> 7, fresh |-> FALSE]}

ExportDocs == {<<LineEmpty>>, <<LineSub>>, <<LineIntro, LineSub>>}

AnimConfigs ==
    {Config(c, VideoCfg(d, Whole(r), t, td)) :
        c \in Covers,
        d \in {Undefined, Rat(1, 2), Rat(3, 2), Whole(4)},
        r \in 1..MaxFps,
        t \in {"", "fade-black", "cut"},
        td \in {Undefined, Whole(0), Whole(1)}}

InitAnimated ==
    /\ config \in AnimConfigs
    /\ lines \in ExportDocs
    /\ files \in {{InputPath}, {}}
    /\ bpc = "off"
    /\ ParseIdle
    /\ apc = "start"
    /\ framesDir \in {NoDirectory, [exists |-> TRUE, frames |-> StaleFrames]}
    /\ AnimIdle
    /\ EncoderIdle
    /\ cpc = "off"
    /\ tmpDir = NoTmpDir
    /\ ClipIdle
    /\ CallIdle

\* page.screenshot({ path: frame-<index>.png }): a file of that name is replaced
writeFrame(dir, index) ==
    [dir EXCEPT !.frames = {x \in @ : x.index # index} \cup {[index |-> index, fresh |-> TRUE]}]

keepDirectory(dir) == [exists |-> TRUE, frames |-> dir.frames]

\* if (existsSync(framesDir)) rmSync(framesDir, { recursive: true }); mkdirSync(framesDir)
resetDirectory(dir) == [exists |-> TRUE, frames |-> {}]

\* validate the input, build the slides, estimate the duration, reset the frames
\* directory (everything up to the first await)
AnimStart ==
    /\ apc = "start"
    /\ IF ~existsSync(config.input)
       THEN /\ apc' = "null"
            /\ UNCHANGED <<deck, totalDuration, framesDir>>
       ELSE /\ deck' = buildSlides(config, lines)
            /\ totalDuration' = estimatedDuration(deck', config)
            /\ framesDir' = resetDirectory(framesDir)
            /\ apc' = "launch"
    /\ UNCHANGED <<envVars, parseVars, callVars, encVars, clipVars, frameIndex, slideIdx, call, renders, writes, browser>>

beginSlideCall(k, start) ==
    [kind |-> "slide", slide |-> k,
     totalFrames |-> frameCount(deck[k + 1].duration, fpsOf(config)),
     f |-> 0, startFrame |-> start, frameIndex |-> start, returned |-> FALSE]

beginTransitionCallOneMore(kind, k, start) ==
    [kind |-> kind, slide |-> k,
     totalFrames |-> frameCount(transitionDurationOf(config), fpsOf(config)) + 1,
     f |-> 0, startFrame |-> start, frameIndex |-> start, returned |-> FALSE]

beginTransitionCall(kind, k, start) ==
    [kind |-> kind, slide |-> k,
     totalFrames |-> frameCount(transitionDurationOf(config), fpsOf(config)),
     f |-> 0, startFrame |-> start, frameIndex |-> start, returned |-> FALSE]

\* loadVideoThemeCSS, chromium.launch, newContext, newPage; then the first slide
AnimLaunch ==
    /\ apc = "launch"
    /\ \/ /\ browser' = "open"
          /\ frameIndex' = 0
          /\ slideIdx' = 0
          /\ call' = beginSlideCall(0, 0)
          /\ renders' = <<>>
          /\ apc' = "capture"
       \/ /\ apc' = "threw"          \* the theme or the browser cannot be loaded
          /\ UNCHANGED <<browser, frameIndex, slideIdx, call, renders>>
    /\ UNCHANGED <<envVars, parseVars, callVars, encVars, clipVars, deck, totalDuration, framesDir, writes>>

\* one iteration of the loop of captureSlideFrames
CaptureSlideFrame ==
    /\ apc = "capture"
    /\ call.kind = "slide"
    /\ ~call.returned
    /\ call.f < call.totalFrames
    /\ renders' = Append(renders, [slide |-> call.slide, phase |-> slidePhase(call.f, call.totalFrames)])
    /\ framesDir' = writeFrame(framesDir, call.frameIndex)
    /\ writes' = Append(writes, call.frameIndex)
    /\ call' = [call EXCEPT !.f = @ + 1, !.frameIndex = @ + 1]
    /\ UNCHANGED <<envVars, parseVars, callVars, encVars, clipVars, apc, deck, totalDuration, frameIndex, slideIdx, browser>>

\* one iteration of the loop of captureTransitionFrames: slide B at the eased phase
CaptureTransitionFrame ==
    /\ apc = "capture"
    /\ call.kind = "crossfade"
    /\ ~call.returned
    /\ call.f < call.totalFrames
    /\ renders' = Append(renders,
            [slide |-> call.slide + 1, phase |-> transitionPhase(call.f, call.totalFrames)])
    /\ framesDir' = writeFrame(framesDir, call.frameIndex)
    /\ writes' = Append(writes, call.frameIndex)
    /\ call' = [call EXCEPT !.f = @ + 1, !.frameIndex = @ + 1]
    /\ UNCHANGED <<envVars, parseVars, callVars, encVars, clipVars, apc, deck, totalDuration, frameIndex, slideIdx, browser>>

\* return frameIndex; the caller assigns it
CaptureReturn ==
    /\ apc = "capture"
    /\ call.kind \in {"slide", "crossfade"}
    /\ ~call.returned
    /\ call.f = call.totalFrames
    /\ call' = [call EXCEPT !.returned = TRUE]
    /\ frameIndex' = call.frameIndex
    /\ UNCHANGED <<envVars, parseVars, callVars, encVars, clipVars, apc, deck, totalDuration, framesDir, slideIdx, renders,
                   writes, browser>>

\* one iteration of the inline fade-black loop: a black page, no slide rendered
CaptureBlackFrame ==
    /\ apc = "capture"
    /\ call.kind = "fade-black"
    /\ call.f < call.totalFrames
    /\ framesDir' = writeFrame(framesDir, frameIndex)
    /\ writes' = Append(writes, frameIndex)
    /\ frameIndex' = frameIndex + 1
    /\ call' = [call EXCEPT !.f = @ + 1, !.frameIndex = @ + 1]
    /\ UNCHANGED <<envVars, parseVars, callVars, encVars, clipVars, apc, deck, totalDuration, slideIdx, renders, browser>>

\* page.setContent or page.screenshot rejects: the export throws
CaptureFails ==
    /\ apc = "capture"
    /\ ~call.returned
    /\ call.f < call.totalFrames
    /\ apc' = "threw"
    /\ UNCHANGED <<envVars, parseVars, callVars, encVars, clipVars, deck, totalDuration, framesDir, frameIndex, slideIdx,
                   call, renders, writes, browser>>

nextSlide ==
    /\ slideIdx' = slideIdx + 1
    /\ IF slideIdx + 1 < Len(deck)
       THEN /\ call' = beginSlideCall(slideIdx + 1, frameIndex)
            /\ renders' = <<>>
            /\ apc' = "capture"
       ELSE /\ call' = NoCall
            /\ renders' = <<>>
            /\ apc' = "close"

\* after the slide's frames: the transition, or the next slide
AfterSlide ==
    /\ apc = "capture"
    /\ call.kind = "slide"
    /\ call.returned
    /\ IF slideIdx < Len(deck) - 1 /\ RLt(Whole(0), transitionDurationOf(config))
          /\ transitionOf(config) \in {"crossfade", "fade-black"}
       THEN /\ call' = beginTransitionCall(transitionOf(config), slideIdx, frameIndex)
            /\ renders' = <<>>
            /\ UNCHANGED <<slideIdx, apc>>
       ELSE nextSlide
    /\ UNCHANGED <<envVars, parseVars, callVars, encVars, clipVars, deck, totalDuration, framesDir, frameIndex, writes,
                   browser>>

\* after the transition's frames: the next slide
AfterTransition ==
    /\ apc = "capture"
    /\ \/ call.kind = "crossfade" /\ call.returned
       \/ call.kind = "fade-black" /\ call.f = call.totalFrames
    /\ nextSlide
    /\ UNCHANGED <<envVars, parseVars, callVars, encVars, clipVars, deck, totalDuration, framesDir, frameIndex, writes,
                   browser>>

\* context.close(), browser.close()
AnimClose ==
    /\ apc = "close"
    /\ browser' = "closed"
    /\ apc' = "encode"
    /\ UNCHANGED <<envVars, parseVars, callVars, encVars, clipVars, deck, totalDuration, framesDir, frameIndex, slideIdx,
                   call, renders, writes>>

\* runFFmpeg(ffmpegArgs, 'encode') over frame-%07d.png: the process is spawned
AnimEncode ==
    /\ apc = "encode"
    /\ encoder = "idle"
    /\ encoder' = "running"
    /\ ffmpegRuns' = Append(ffmpegRuns, ffmpegRun("encode", FramePattern, Undefined, outputOf(config)))
    /\ apc' = "encoding"
    /\ UNCHANGED <<envVars, parseVars, callVars, clipVars, deck, totalDuration, framesDir, frameIndex,
                   slideIdx, call, renders, writes, browser, lastError>>

\* the 'close' or 'error' event of the encoder; on success rmSync(framesDir),
\* report, return output
AnimEncodeExit ==
    /\ apc = "encoding"
    /\ encoder = "running"
    /\ encoder' = "idle"
    /\ \E outcome \in EncoderOutcomes, n \in StderrLengths :
          IF outcome = "ok"
          THEN /\ files' = files \cup {outputOf(config)}
               /\ framesDir' = NoDirectory
               /\ apc' = "done"
               /\ UNCHANGED lastError
          ELSE /\ lastError' = encoderError(outcome, "encode", Len(ffmpegRuns), n,
                                            StderrTailAnimated)
               /\ apc' = "threw"
               /\ UNCHANGED <<files, framesDir>>
    /\ UNCHANGED <<config, lines, parseVars, callVars, clipVars, deck, totalDuration, frameIndex,
                   slideIdx, call, renders, writes, browser, ffmpegRuns>>

NextAnimated ==
    \/ AnimStart \/ AnimLaunch
    \/ CaptureSlideFrame \/ CaptureTransitionFrame \/ CaptureBlackFrame
    \/ CaptureReturn \/ CaptureFails
    \/ AfterSlide \/ AfterTransition
    \/ AnimClose \/ AnimEncode \/ AnimEncodeExit

SpecAnimated == InitAnimated /\ [][NextAnimated]_vars

-----------------------------------------------------------------------------
(* Properties of the animated export *)

\* the least integer that is >= num / den
ceilOf(num, den) == CHOOSE n \in 0..(num + 1) : n * den >= num /\ (n - 1) * den < num

slideCallReturned == apc = "capture" /\ call.kind = "slide" /\ call.returned

\* ceil(d * f) of the slide the call is about
expectedFrames ==
    LET d == deck[call.slide + 1].duration
        r == fpsOf(config)
    IN  ceilOf(d[1] * r[1], d[2] * r[2])

inUnitInterval(x) == RLeq(Whole(0), x) /\ RLeq(x, Whole(1))

\* C6: captureSlideFrames renders exactly ceil(d*f) frames of its slide, returns
\* startFrame + ceil(d*f), and hands the renderer only phases within [0, 1].
C6_FramesPerSlide ==
    /\ (apc = "capture" /\ call.kind = "slide") =>
          \A k \in DOMAIN renders :
              renders[k].slide = call.slide /\ inUnitInterval(renders[k].phase)
    /\ slideCallReturned =>
          /\ Len(renders) = expectedFrames
          /\ frameIndex = call.startFrame + expectedFrames
          /\ Len(writes) = call.startFrame + expectedFrames
          /\ \A k \in 1..expectedFrames :
                writes[call.startFrame + k] = call.startFrame + k - 1

C6_Witness ==
    /\ slideCallReturned
    /\ call.startFrame > 0
    /\ deck[call.slide + 1].duration = Rat(3, 2)
    /\ fpsOf(config) = Whole(1)
    /\ Len(renders) = 2

\* the frames of the hold region and before: those under ceil(0.9 * totalFrames)
holdEnd(total) == ceilOf(9 * total, 10)

nonDecreasingThroughHold ==
    \A j, k \in DOMAIN renders :
        (j < k /\ k <= holdEnd(Len(renders))) => RLeq(renders[j].phase, renders[k].phase)

lastPhase == renders[Len(renders)].phase

\* C7: the phases of a slide do not decrease through the hold region, the
\* first is below 1, and the last lies in [0.85, 1.0).
C7_EndsDimmed ==
    slideCallReturned =>
        /\ nonDecreasingThroughHold
        /\ RLt(renders[1].phase, Whole(1))
        /\ RLeq(Rat(85, 100), lastPhase) /\ RLt(lastPhase, Whole(1))

durationsOf(ss) == [k \in DOMAIN ss |-> ss[k].duration]

RECURSIVE sumUpTo(_, _)
sumUpTo(ds, n) == IF n = 0 THEN Whole(0) ELSE RAdd(sumUpTo(ds, n - 1), ds[n])

estimated == apc \notin {"off", "start", "null"}

\* C8: the estimated total duration is the sum of the slide durations plus
\* (slideCount - 1) times transitionDuration; for durations 8, 4, 6 and
\* transitionDuration 0.5 it is 19.
C8_EstimatedDuration ==
    estimated =>
        /\ totalDuration =
              RAdd(sumUpTo(durationsOf(deck), Len(deck)),
                   RMul(Whole(Len(deck) - 1),
                        IF config.video.transitionDuration = Undefined
                        THEN Rat(1, 2) ELSE config.video.transitionDuration))
        /\ (/\ durationsOf(deck) = <<Whole(8), Whole(4), Whole(6)>>
            /\ config.video.transitionDuration = Undefined)
           => totalDuration = Whole(19)

C8_Witness ==
    /\ estimated
    /\ durationsOf(deck) = <<Whole(8), Whole(4), Whole(6)>>
    /\ config.video.transitionDuration = Undefined
    /\ totalDuration = Whole(19)

\* C10: frame indices start at 0 and grow by one per captured frame, slide frames and
\* transition frames alike; when the encoder is invoked the frames directory holds
\* exactly the frames 0..K-1 of this run, each written once, and nothing older.
C10_GaplessFrames ==
    /\ apc # "off" => \A k \in DOMAIN writes : writes[k] = k - 1
    /\ apc = "encoding" =>
          /\ Len(writes) = frameIndex
          /\ framesDir.exists
          /\ framesDir.frames = {[index |-> k, fresh |-> TRUE] : k \in 0..(frameIndex - 1)}

RECURSIVE slideFramesOf(_)
slideFramesOf(ss) ==
    IF ss = <<>> THEN 0
    ELSE frameCount(Head(ss).duration, fpsOf(config)) + slideFramesOf(Tail(ss))

C10_Witness ==
    /\ apc = "encoding"
    /\ Len(deck) >= 3
    /\ frameIndex > slideFramesOf(deck)

-----------------------------------------------------------------------------
(* The clip-based export: exportTutorialToVideo, one clip per slide or scene *)

MaxScenes == 2

SceneCoverDefault == 6
SceneSectionTitleDefault == 4
SceneClosingDefault == 6
SceneContentDefault == 6
SceneClipDefault == 4

NorPan == <<"NOR-PAN S.A.">>
FinDelTutorial == <<"Fin del Tutorial">>

modeOf(cfg) == IF cfg.video.mode = "" THEN "slides-only" ELSE cfg.video.mode

\* the slide record of a scene of type slide
buildSlideForScene(scene, cfg) ==
    IF scene.slideType = "cover"
    THEN [type |-> "cover",
          title |-> OrText(cfg.cover.title, Tutorial),
          footer |-> cfg.cover.footer,
          duration |-> OrDefault(scene.duration, Whole(SceneCoverDefault))]
    ELSE IF scene.slideType = "section-title"
    THEN [type |-> "section-title",
          title |-> scene.title,
          sectionNumber |-> <<>>,
          duration |-> OrDefault(scene.duration, Whole(SceneSectionTitleDefault))]
    ELSE IF scene.slideType = "closing"
    THEN [type |-> "closing",
          title |-> FinDelTutorial,
          subtitle |-> OrText(cfg.cover.footer, NorPan),
          duration |-> OrDefault(scene.duration, Whole(SceneClosingDefault))]
    ELSE [type |-> "content",
          title |-> scene.title,
          text |-> <<>>,
          bullets |-> <<>>,
          duration |-> OrDefault(scene.duration, Whole(SceneContentDefault))]

\* renderSlide: the content branch reads slide.steps.length, every other branch
\* reads only fields it can do without
renderThrows(slide) == slide.type = "content" /\ "steps" \notin DOMAIN slide

\* the duration handed to imageToClip for a slide scene
sceneClipDuration(scene) == OrDefault(scene.duration, Whole(SceneClipDefault))

DigitChars == <<"0", "1", "2", "3", "4", "5", "6", "7", "8", "9">>

\* String(i)
RECURSIVE decimal(_)
decimal(i) ==
    IF i < 10 THEN <<DigitChars[i + 1]>>
    ELSE decimal(i \div 10) \o <<DigitChars[(i % 10) + 1]>>

RECURSIVE padStart(_, _, _)
padStart(s, n, c) == IF Len(s) >= n THEN s ELSE padStart(<<c>> \o s, n, c)

clipIdxOfFirst(i) == padStart(decimal(0), 3, "0")

\* String(i).padStart(3, '0')
clipIdxOf(i) == padStart(decimal(i), 3, "0")

\* file names inside the temporary directory
sceneImageName(i) == <<"scene-">> \o clipIdxOf(i) \o <<".png">>
slideImageName(i) == <<"slide-">> \o clipIdxOf(i) \o <<".png">>
clipName(i) == <<"clip-">> \o clipIdxOf(i) \o <<".mp4">>
recDirName(i) == <<"rec-">> \o clipIdxOf(i)
recordedName(i) == recDirName(i) \o <<"/", "video.webm">>
ConcatName == <<"concat.txt">>
FinalName == <<"final.mp4">>

\* join(dirname(output), '.tutorial-video-tmp')
tmpDirPath(cfg) == pathJoin(dirname(outputOf(cfg)), <<".tutorial-video-tmp">>)
inTmp(cfg, name) == pathJoin(tmpDirPath(cfg), name)

\* p.replace(/\\/g, '/')
forwardSlashes(p) == [k \in DOMAIN p |-> IF p[k] = "\\" THEN "/" ELSE p[k]]

manifestOfAllButLast(paths) ==
    [k \in 1..(Len(paths) - 1) |-> <<"file '">> \o forwardSlashes(paths[k]) \o <<"'">>]

\* clipPaths.map(p => `file '${...}'`), the lines of concat.txt
manifestOf(paths) == [k \in DOMAIN paths |-> <<"file '">> \o forwardSlashes(paths[k]) \o <<"'">>]

noClipsNever(paths) == FALSE

\* clipPaths.length === 0
noClips(paths) == Len(paths) = 0

\* if (existsSync(tmpDir)) rmSync(tmpDir, { recursive: true }); mkdirSync(tmpDir)
resetTmpDir(dir) == [exists |-> TRUE, entries |-> {}]

\* rmSync(tmpDir, { recursive: true })
removeTmpDir(dir) == [exists |-> FALSE, entries |-> {}]

addEntry(dir, name) == [dir EXCEPT !.entries = @ \cup {name}]

(* the scenes a scenes module may export *)
Scene(type, slideType, title, duration, actions) ==
    [type |-> type, slideType |-> slideType, title |-> title, duration |-> duration,
     actions |-> actions]

SceneCover == Scene("slide", "cover", <<>>, Undefined, "none")
SceneSection == Scene("slide", "section-title", <<"A">>, Whole(3), "none")
SceneClosing == Scene("slide", "closing", <<>>, Undefined, "none")
SceneContent == Scene("slide", "content", <<"B">>, Whole(5), "none")
SceneRecording == Scene("recording", "", <<>>, Undefined, "ok")
SceneRecordingThrows == Scene("recording", "", <<>>, Undefined, "throws")
SceneRecordingBare == Scene("recording", "", <<>>, Undefined, "none")
SceneNote == Scene("note", "", <<>>, Undefined, "none")

ScenePool == {SceneCover, SceneSection, SceneClosing, SceneContent, SceneRecording,
              SceneRecordingThrows, SceneRecordingBare, SceneNote}

\* a longer list: scenes that yield a clip, with scenes between them that yield none
MixedScenes == <<SceneCover, SceneNote, SceneRecording, SceneRecordingBare, SceneClosing>>

SceneLists == UNION {[1..n -> ScenePool] : n \in 0..MaxScenes} \cup {MixedScenes}

\* what the import of videoCfg.scenes yields: unset, a module that cannot be
\* loaded, a module that exports neither scenes nor default, a list of scenes
ScenesModules ==
    {NoScenesModule, [kind |-> "broken", list |-> <<>>], [kind |-> "noexport", list |-> <<>>]}
    \cup {[kind |-> "ok", list |-> l] : l \in SceneLists}

ClipConfigs ==
    {Config(c, [VideoCfg(d, Undefined, "", Undefined) EXCEPT !.mode = "hybrid", !.scenes = m]) :
        c \in Covers, d \in {Undefined}, m \in ScenesModules}
    \cup {Config(c, VideoCfg(d, Undefined, "", Undefined)) :
        c \in Covers, d \in {Undefined, Whole(4)}}

StaleTmpDir == [exists |-> TRUE, entries |-> {ConcatName, clipName(7)}]

InitClips ==
    /\ config \in ClipConfigs
    /\ lines \in ExportDocs
    /\ files \in {{InputPath}, {}}
    /\ bpc = "off"
    /\ ParseIdle
    /\ apc = "off"
    /\ framesDir = NoDirectory
    /\ AnimIdle
    /\ EncoderIdle
    /\ cpc = "start"
    /\ tmpDir \in {NoTmpDir, StaleTmpDir}
    /\ ClipIdle
    /\ CallIdle

animOnly == <<apc, totalDuration, framesDir, frameIndex, call, writes>>

hybridRun == modeOf(config) = "hybrid" /\ config.video.scenes.kind # "unset"

\* the scenes, the check of the input, the temporary directory
ClipStart ==
    /\ cpc = "start"
    /\ LET m == config.video.scenes
       IN  IF hybridRun /\ m.kind = "broken"
           THEN /\ cpc' = "null"                  \* the import throws: return null
                /\ UNCHANGED <<scenes, tmpDir, lastError>>
           ELSE IF hybridRun /\ m.kind = "noexport"
           THEN /\ cpc' = "threw"                 \* scenes.length of undefined
                /\ lastError' = Err("type-error")
                /\ UNCHANGED <<scenes, tmpDir>>
           ELSE IF modeOf(config) = "slides-only" /\ ~existsSync(config.input)
           THEN /\ cpc' = "null"
                /\ UNCHANGED <<scenes, tmpDir, lastError>>
           ELSE /\ scenes' = IF hybridRun THEN m.list ELSE <<>>
                /\ tmpDir' = resetTmpDir(tmpDir)
                /\ cpc' = "launch"
                /\ UNCHANGED lastError
    /\ UNCHANGED <<envVars, parseVars, callVars, animVars, encoder, ffmpegRuns, clipPaths, pending, warnings,
                   manifest>>

\* loadVideoThemeCSS, loadCursorOverlay, getFFmpegPath; then chromium.launch, in the
\* slides-only branch after buildSlides
ClipLaunch ==
    /\ cpc = "launch"
    /\ \/ /\ hybridRun
          /\ browser' = "open"
          /\ slideIdx' = 0
          /\ cpc' = "scene"
          /\ UNCHANGED <<deck, lastError>>
       \/ /\ ~hybridRun
          /\ IF existsSync(config.input)
             THEN /\ deck' = buildSlides(config, lines)
                  /\ browser' = "open"
                  /\ slideIdx' = 0
                  /\ cpc' = "slide"
                  /\ UNCHANGED lastError
             ELSE /\ cpc' = "threw"               \* readFileSync throws ENOENT
                  /\ lastError' = Err("enoent")
                  /\ UNCHANGED <<deck, browser, slideIdx>>
       \/ /\ cpc' = "threw"                       \* the theme or the browser cannot be loaded
          /\ lastError' = Err("launch-failed")
          /\ UNCHANGED <<deck, browser, slideIdx>>
    /\ UNCHANGED <<envVars, parseVars, callVars, animOnly, renders, encoder, ffmpegRuns, scenes, warnings,
                   tmpDir, clipPaths, pending, manifest>>

\* a slide scene: build the slide, render it at phase 1.0, screenshot it, spawn the
\* encoder that turns the still into a clip
SceneSlide ==
    /\ cpc = "scene"
    /\ slideIdx < Len(scenes)
    /\ LET scene == scenes[slideIdx + 1]
           slideData == buildSlideForScene(scene, config)
       IN  /\ scene.type = "slide"
           /\ IF renderThrows(slideData)
              THEN /\ cpc' = "threw"
                   /\ lastError' = Err("type-error")
                   /\ UNCHANGED <<renders, tmpDir, encoder, ffmpegRuns, pending>>
              ELSE /\ renders' = Append(renders, [slide |-> slideIdx, phase |-> Whole(1)])
                   /\ tmpDir' = addEntry(tmpDir, sceneImageName(slideIdx))
                   /\ encoder = "idle"
                   /\ encoder' = "running"
                   /\ ffmpegRuns' = Append(ffmpegRuns,
                          ffmpegRun("img-clip", inTmp(config, sceneImageName(slideIdx)),
                                    sceneClipDuration(scene), inTmp(config, clipName(slideIdx))))
                   /\ pending' = [kind |-> "img-clip", out |-> clipName(slideIdx)]
                   /\ cpc' = "encoding"
                   /\ UNCHANGED lastError
    /\ UNCHANGED <<envVars, parseVars, callVars, animOnly, deck, slideIdx, browser, scenes, warnings, clipPaths,
                   manifest>>

\* a recording scene with actions: record the page while the actions run; an error
\* of the actions is logged; a recording that is found is normalized
SceneRecord ==
    /\ cpc = "scene"
    /\ slideIdx < Len(scenes)
    /\ LET scene == scenes[slideIdx + 1]
       IN  /\ scene.type = "recording"
           /\ scene.actions # "none"
           /\ \E recorded \in BOOLEAN :
                /\ warnings' = warnings
                       \o (IF scene.actions = "throws"
                           THEN <<[scene |-> slideIdx, kind |-> "actions-error"]>> ELSE <<>>)
                       \o (IF recorded
                           THEN <<>> ELSE <<[scene |-> slideIdx, kind |-> "no-video"]>>)
                /\ IF recorded
                   THEN /\ tmpDir' = addEntry(addEntry(tmpDir, recDirName(slideIdx)),
                                              recordedName(slideIdx))
                        /\ encoder = "idle"
                        /\ encoder' = "running"
                        /\ ffmpegRuns' = Append(ffmpegRuns,
                               ffmpegRun("normalize", inTmp(config, recordedName(slideIdx)),
                                         Undefined, inTmp(config, clipName(slideIdx))))
                        /\ pending' = [kind |-> "normalize", out |-> clipName(slideIdx)]
                        /\ cpc' = "encoding"
                        /\ UNCHANGED slideIdx
                   ELSE /\ tmpDir' = addEntry(tmpDir, recDirName(slideIdx))
                        /\ slideIdx' = slideIdx + 1
                        /\ UNCHANGED <<encoder, ffmpegRuns, pending, cpc>>
    /\ UNCHANGED <<envVars, parseVars, callVars, animOnly, deck, renders, browser, lastError, scenes,
                   clipPaths, manifest>>

\* a scene that is neither a slide nor a recording with actions
SceneSkip ==
    /\ cpc = "scene"
    /\ slideIdx < Len(scenes)
    /\ LET scene == scenes[slideIdx + 1]
       IN  /\ scene.type # "slide"
           /\ ~(scene.type = "recording" /\ scene.actions # "none")
    /\ slideIdx' = slideIdx + 1
    /\ UNCHANGED <<envVars, parseVars, callVars, animOnly, deck, renders, browser, encVars, cpc, scenes, warnings,
                   tmpDir, clipPaths, pending, manifest>>

\* slides-only: render slide i at phase 1.0, screenshot it, spawn the encoder
SlideShot ==
    /\ cpc = "slide"
    /\ slideIdx < Len(deck)
    /\ LET slide == deck[slideIdx + 1]
       IN  IF renderThrows(slide)
           THEN /\ cpc' = "threw"
                /\ lastError' = Err("type-error")
                /\ UNCHANGED <<renders, tmpDir, encoder, ffmpegRuns, pending>>
           ELSE /\ renders' = Append(renders, [slide |-> slideIdx, phase |-> Whole(1)])
                /\ tmpDir' = addEntry(tmpDir, slideImageName(slideIdx))
                /\ encoder = "idle"
                /\ encoder' = "running"
                /\ ffmpegRuns' = Append(ffmpegRuns,
                       ffmpegRun("img-clip", inTmp(config, slideImageName(slideIdx)),
                                 slide.duration, inTmp(config, clipName(slideIdx))))
                /\ pending' = [kind |-> "img-clip", out |-> clipName(slideIdx)]
                /\ cpc' = "encoding"
                /\ UNCHANGED lastError
    /\ UNCHANGED <<envVars, parseVars, callVars, animOnly, deck, slideIdx, browser, scenes, warnings, clipPaths,
                   manifest>>

\* the 'close' or 'error' event of the encoder of imageToClip or normalizeClip; on
\* success clipPaths.push(clipPath) and the next iteration
ClipEncoded ==
    /\ cpc = "encoding"
    /\ encoder = "running"
    /\ encoder' = "idle"
    /\ pending' = NoPending
    /\ \E outcome \in EncoderOutcomes, n \in StderrLengths :
          IF outcome = "ok"
          THEN /\ tmpDir' = addEntry(tmpDir, pending.out)
               /\ clipPaths' = Append(clipPaths, inTmp(config, pending.out))
               /\ slideIdx' = slideIdx + 1
               /\ cpc' = IF hybridRun THEN "scene" ELSE "slide"
               /\ UNCHANGED lastError
          ELSE /\ lastError' = encoderError(outcome, pending.kind, Len(ffmpegRuns), n,
                                            StderrTail)
               /\ cpc' = "threw"
               /\ UNCHANGED <<tmpDir, clipPaths, slideIdx>>
    /\ UNCHANGED <<envVars, parseVars, callVars, animOnly, deck, renders, browser, ffmpegRuns, scenes, warnings,
                   manifest>>

\* after the loop: (ctx.close and) browser.close
ClipClose ==
    /\ \/ cpc = "scene" /\ slideIdx = Len(scenes)
       \/ cpc = "slide" /\ slideIdx = Len(deck)
    /\ browser' = "closed"
    /\ cpc' = "concat"
    /\ UNCHANGED <<envVars, parseVars, callVars, animOnly, deck, slideIdx, renders, encVars, scenes, warnings,
                   tmpDir, clipPaths, pending, manifest>>

\* "Concatenate all clips": without clips remove the temporary directory and return
\* null; otherwise write concat.txt and spawn the concatenation
ClipConcat ==
    /\ cpc = "concat"
    /\ IF noClips(clipPaths)
       THEN /\ tmpDir' = removeTmpDir(tmpDir)
            /\ cpc' = "null"
            /\ UNCHANGED <<manifest, encoder, ffmpegRuns>>
       ELSE /\ manifest' = manifestOf(clipPaths)
            /\ tmpDir' = addEntry(tmpDir, ConcatName)
            /\ encoder = "idle"
            /\ encoder' = "running"
            /\ ffmpegRuns' = Append(ffmpegRuns,
                   ffmpegRun("concat", inTmp(config, ConcatName), Undefined,
                             inTmp(config, FinalName)))
            /\ cpc' = "concatenating"
    /\ UNCHANGED <<envVars, parseVars, callVars, animVars, lastError, scenes, warnings, clipPaths, pending>>

\* the 'close' or 'error' event of the concatenation; on success
\* copyFileSync(concatOut, output), rmSync(tmpDir), return output
ClipConcatExit ==
    /\ cpc = "concatenating"
    /\ encoder = "running"
    /\ encoder' = "idle"
    /\ \E outcome \in EncoderOutcomes, n \in StderrLengths :
          IF outcome = "ok"
          THEN /\ files' = files \cup {outputOf(config)}
               /\ tmpDir' = removeTmpDir(addEntry(tmpDir, FinalName))
               /\ cpc' = "done"
               /\ UNCHANGED lastError
          ELSE /\ lastError' = encoderError(outcome, "concat", Len(ffmpegRuns), n,
                                            StderrTail)
               /\ cpc' = "threw"
               /\ UNCHANGED <<files, tmpDir>>
    /\ UNCHANGED <<config, lines, parseVars, callVars, animVars, ffmpegRuns, scenes, warnings, clipPaths, pending,
                   manifest>>

NextClips ==
    \/ ClipStart \/ ClipLaunch
    \/ SceneSlide \/ SceneRecord \/ SceneSkip \/ SlideShot
    \/ ClipEncoded \/ ClipClose
    \/ ClipConcat \/ ClipConcatExit

SpecClips == InitClips /\ [][NextClips]_vars

-----------------------------------------------------------------------------
(* Properties of the clip-based export *)

\* every scene or slide has been processed: the browser is closed only after the loop
loopDone == cpc # "off" /\ browser = "closed"

concatRuns == {k \in DOMAIN ffmpegRuns : ffmpegRuns[k].label = "concat"}

\* C9: in the clip-based export, once every scene or slide has been processed and
\* the clip list is empty, the export is about to return null or has returned it;
\* concat.txt has not been written, no concatenation has been spawned, no encoder
\* runs, and the output file has not been produced.
C9_NoClipsNoConcat ==
    (loopDone /\ clipPaths = <<>>) =>
        /\ cpc \in {"concat", "null"}
        /\ manifest = <<>>
        /\ ConcatName \notin tmpDir.entries
        /\ concatRuns = {}
        /\ encoder = "idle"
        /\ outputOf(config) \notin files

\* a hybrid run whose scenes were processed without yielding a clip has returned null
C9_Witness ==
    /\ cpc = "null"
    /\ loopDone
    /\ Len(scenes) >= 1
    /\ clipPaths = <<>>

rangeOf(seq) == {seq[k] : k \in DOMAIN seq}

\* scene i (counted from 0) has been left behind by the scene loop
scenePassed(i) == cpc \in {"scene", "encoding", "concat", "concatenating", "done", "null", "threw"}
                  /\ hybridRun /\ slideIdx > i

throwingScenes ==
    {i \in 0..(Len(scenes) - 1) :
        scenes[i + 1].type = "recording" /\ scenes[i + 1].actions = "throws"}

\* C11: in hybrid mode a recording scene whose actions throw is logged, adds no clip
\* to the clip list or to the manifest, and the loop goes on to the next scene.
C11_FailedSceneOmitted ==
    \A i \in throwingScenes :
        /\ (slideIdx = i /\ cpc = "encoding") => pending.out # clipName(i)
        /\ scenePassed(i) =>
              /\ [scene |-> i, kind |-> "actions-error"] \in rangeOf(warnings)
              /\ inTmp(config, clipName(i)) \notin rangeOf(clipPaths)
              /\ manifestOf(<<inTmp(config, clipName(i))>>)[1] \notin rangeOf(manifest)

\* the run went past mkdirSync(tmpDir): the two exits before it leave no browser
\* behind and are the null of ClipStart and the TypeError of scenes.length
tmpDirCreated ==
    /\ cpc \notin {"off", "start"}
    /\ ~(cpc = "null" /\ browser = "none")
    /\ ~(cpc = "threw" /\ browser = "none" /\ lastError.kind = "type-error")

\* C12: a run that created its temporary directory has removed it when it returns
\* the output path, and has left it in place when it returns null or throws.
C12_TmpDirFate ==
    tmpDirCreated =>
        /\ cpc = "done" => ~tmpDir.exists
        /\ cpc \in {"null", "threw"} => tmpDir.exists

-----------------------------------------------------------------------------
(* Either export: the animated one or the clip-based one *)

InitExports == InitAnimated \/ InitClips
NextExports == NextAnimated \/ NextClips
SpecExports == InitExports /\ [][NextExports]_vars

\* C13: when an encoder run (img-clip, normalize, concat or encode) ends with a status
\* other than 0, the export has thrown an Error that names the run and quotes the
\* error stream up to its end, no encoder has been spawned after the failed one and
\* none is running, and the clip-based export has not written the output path.
C13_EncoderFailureIsFatal ==
    lastError.kind = "ffmpeg-failed" =>
        /\ \/ apc = "threw" /\ cpc = "off"
           \/ cpc = "threw" /\ apc = "off"
        /\ encoder = "idle"
        /\ lastError.run = Len(ffmpegRuns)
        /\ lastError.label = ffmpegRuns[lastError.run].label
        /\ lastError.tail[2] = lastError.stderr
        /\ lastError.stderr > 0 => lastError.tail[1] < lastError.tail[2]
        /\ cpc = "threw" => outputOf(config) \notin files

C13_Witness ==
    /\ cpc = "threw"
    /\ lastError.kind = "ffmpeg-failed"
    /\ lastError.label = "normalize"
    /\ lastError.run = 2
    /\ lastError.stderr > StderrTail
    /\ lastError.tail[1] > 0

\* the run is one that reads the Markdown source: the animated export always does,
\* the clip-based export unless it runs the scenes of a scenes module
readsSource == apc # "off" \/ (cpc # "off" /\ ~hybridRun)

\* C14: a run that reads the Markdown source and finds no such file leaves the
\* temporary directories as they were, launches no browser and spawns no encoder,
\* whatever the mode (slides-only, hybrid with scenes, hybrid without scenes module).
C14_MissingSourceAborts ==
    (readsSource /\ ~existsSync(config.input)) =>
        /\ tmpDir \in {NoTmpDir, StaleTmpDir}
        /\ framesDir \in {NoDirectory, [exists |-> TRUE, frames |-> StaleFrames]}
        /\ browser = "none"
        /\ ffmpegRuns = <<>>

-----------------------------------------------------------------------------
(* resolveImage called on its own, and again on the path it returned *)

HrefPlain == <<"a", ".", "p", "n", "g">>
HrefLegacy == <<"S", "S", "/", "a", ".", "p", "n", "g">>
HrefMissing == <<"n", "o", ".", "p", "n", "g">>
Hrefs == {HrefPlain, HrefLegacy, HrefMissing, ImageOnDisk}

RelativeImagesDir == <<"d", "/", "S", "S">>
ImagesDirs == {ImagesDir, RelativeImagesDir}

\* the files a disk of this specification may hold: every candidate of HrefPlain and
\* HrefLegacy under either directory, and /d/SS/d/SS/a.png
ImageFiles ==
    UNION {{pathResolve(imageCandidates(h, d)[k]) : k \in 1..Len(imageCandidates(h, d))} :
              h \in {HrefPlain, HrefLegacy}, d \in ImagesDirs}
        \cup {pathJoin(ImagesDir, ImageOnDisk)}

InitResolve ==
    /\ config \in {Config(NoCover, VideoCfg(Undefined, Undefined, "", Undefined))}
    /\ lines = <<>>
    /\ files \in SUBSET ImageFiles
    /\ bpc = "off"
    /\ ParseIdle
    /\ apc = "off"
    /\ framesDir = NoDirectory
    /\ AnimIdle
    /\ EncoderIdle
    /\ cpc = "off"
    /\ tmpDir = NoTmpDir
    /\ ClipIdle
    /\ rpc = "start"
    /\ rargs \in [href : Hrefs, imagesDir : ImagesDirs]
    /\ rets = <<>>
    /\ mpc = "off"
    /\ argv = <<>>
    /\ exportsRun = <<>>
    /\ hpc = "off"
    /\ hargs = NoRender
    /\ styles = <<>>
    /\ spc = "off"
    /\ program = <<>>
    /\ started = 0
    /\ inflight = {}
    /\ oplog = <<>>

\* resolveImage(href, imagesDir)
ResolveCall ==
    /\ rpc = "start"
    /\ rets' = <<resolveImage(rargs.href, rargs.imagesDir)>>
    /\ rpc' = "once"
    /\ UNCHANGED <<envVars, parseVars, animVars, encVars, clipVars, rargs, cliVars,
                   renderVars, serialVars>>

\* resolveImage(p, imagesDir) for the path p the first call returned
ResolveAgain ==
    /\ rpc = "once"
    /\ rets[1] # NoPath
    /\ rets' = Append(rets, resolveImage(rets[1], rargs.imagesDir))
    /\ rpc' = "twice"
    /\ UNCHANGED <<envVars, parseVars, animVars, encVars, clipVars, rargs, cliVars,
                   renderVars, serialVars>>

NextResolve == ResolveCall \/ ResolveAgain

SpecResolve == InitResolve /\ [][NextResolve]_vars

-----------------------------------------------------------------------------
(* Properties of resolveImage *)

\* C15: resolveImage is idempotent: when it returned a path p for an href, the call
\* on p with the same images directory returns p again.
C15_ResolveIdempotent == rpc = "twice" => rets[2] = rets[1]

\* the candidates in the order the specification gives: images-directory path, literal
\* path, then the parent-relative path for an href with the prefix SS/
candidatesAsSpecified(href, imagesDir) ==
    <<pathJoin(imagesDir, href), pathResolve(href)>>
        \o (IF startsWith(href, <<"S", "S", "/">>)
            THEN <<pathJoin(dirname(imagesDir), href)>>
            ELSE <<>>)

\* C20: resolveImage returns the first existing candidate in the order images-directory
\* path, literal path, parent-relative path (the last only for hrefs starting with SS/),
\* and null when none exists.
C20_CandidateOrder ==
    rpc # "start" =>
        rets[1] = firstExisting(candidatesAsSpecified(rargs.href, rargs.imagesDir))

-----------------------------------------------------------------------------
(* The command-line program: node loads the module, which calls main() *)

MaxArgs == 3

ArgTokens == {"--config", "c.js", "--pdf", "--video", "--help"}
Argvs == UNION {[1..n -> ArgTokens] : n \in 0..MaxArgs}

\* resolve(process.cwd(), 'tutorial.config.js')
DefaultConfigPath ==
    pathJoin(Cwd, <<"t", "u", "t", "o", "r", "i", "a", "l", ".", "c", "o", "n", "f", "i",
                    "g", ".", "j", "s">>)

\* the function declarations of the module: whether the declaration is async, and
\* whether its body holds an await expression outside any nested function
Declarations ==
    [parseArgs |-> [async |-> FALSE, awaits |-> TRUE],
     printHelp |-> [async |-> FALSE, awaits |-> FALSE],
     main |-> [async |-> TRUE, awaits |-> TRUE]]

\* the early error of ECMAScript modules: await is a reserved word in a module, and an
\* await expression is in the grammar of async function bodies (and the top level) only
moduleCompiles ==
    \A f \in DOMAIN Declarations : Declarations[f].awaits => Declarations[f].async

InitCli ==
    /\ config \in {Config(NoCover, VideoCfg(Undefined, Undefined, "", Undefined))}
    /\ lines = <<>>
    /\ files \in {{DefaultConfigPath, InputPath}, {}}
    /\ bpc = "off"
    /\ ParseIdle
    /\ apc = "off"
    /\ framesDir = NoDirectory
    /\ AnimIdle
    /\ EncoderIdle
    /\ cpc = "off"
    /\ tmpDir = NoTmpDir
    /\ ClipIdle
    /\ rpc = "off"
    /\ rargs = NoArgs
    /\ rets = <<>>
    /\ mpc = "start"
    /\ argv \in Argvs
    /\ exportsRun = <<>>
    /\ hpc = "off"
    /\ hargs = NoRender
    /\ styles = <<>>
    /\ spc = "off"
    /\ program = <<>>
    /\ started = 0
    /\ inflight = {}
    /\ oplog = <<>>

\* node parses the module before it runs any of it: with the SyntaxError the process
\* ends with code 1 and neither parseArgs nor main is ever entered
CliLoad ==
    /\ mpc = "start"
    /\ mpc' = IF moduleCompiles THEN "main" ELSE "exit-1"
    /\ UNCHANGED <<envVars, parseVars, animVars, encVars, clipVars, resolveVars, argv,
                   exportsRun, renderVars, serialVars>>

NextCli == CliLoad

SpecCli == InitCli /\ [][NextCli]_vars

-----------------------------------------------------------------------------
(* Properties of the command-line program *)

given(flag) == \E i \in 1..Len(argv) : argv[i] = flag

ran(event) == \E i \in 1..Len(exportsRun) : exportsRun[i] = event

\* a run with flags only, from a directory that holds tutorial.config.js
flagsOnly ==
    /\ \A i \in 1..Len(argv) : argv[i] \in {"--pdf", "--video"}
    /\ existsSync(DefaultConfigPath)

\* C16: the PDF export runs exactly when --pdf is given or neither --pdf nor --video
\* is, the video export exactly when --video is given, and when both run the PDF
\* export has completed before the video export starts.
C16_ExportsFollowFlags ==
    (mpc \in {"exit-0", "exit-1"} /\ flagsOnly) =>
        /\ ran("pdf-start") <=> (given("--pdf") \/ ~given("--video"))
        /\ ran("video-start") <=> given("--video")
        /\ \A i \in 1..Len(exportsRun) :
              exportsRun[i] = "video-start" =>
                  \A j \in 1..Len(exportsRun) : exportsRun[j] = "pdf-end" => j < i

-----------------------------------------------------------------------------
(* Properties of buildSlides: the index block, the buffer, the parent section *)

\* an H2 line that does not match the index marker
plainHeading(line) == isH2(line) /\ ~isTocHeading(line)

\* line i of the source is in an index block: an index heading at or before it, and
\* no H2 line without the marker from there up to line i
inIndexBlock(i) ==
    \E j \in 1..i :
        /\ isTocHeading(lines[j])
        /\ \A k \in (j + 1)..i : ~plainHeading(lines[k])

RECURSIVE outsideIndexBlocks(_)
\* the lines 1..n of the source that are in no index block, in order
outsideIndexBlocks(n) ==
    IF n = 0 THEN <<>>
    ELSE outsideIndexBlocks(n - 1) \o (IF inIndexBlock(n) THEN <<>> ELSE <<lines[n]>>)

\* C17: the lines of an index block (from an H2 with the index marker up to, but
\* excluding, the next H2 without it) are discarded, H3 headings and further index
\* headings among them, and the H2 that ends the block is processed as a normal
\* heading: the slides are those of the source with the blocks cut out.
C17_IndexBlockDiscarded ==
    Returned => slides = buildSlides(config, outsideIndexBlocks(Len(lines)))

C17_Witness ==
    /\ Returned
    /\ \E i, j, k, l \in DOMAIN lines :
          /\ i < j /\ j < k /\ k < l
          /\ isTocHeading(lines[i]) /\ ~isTocHeading(lines[j]) /\ isH3(lines[j])
          /\ isTocHeading(lines[k])
          /\ plainHeading(lines[l]) /\ ~isSubtitle(lines[l])
          /\ \A n \in i..(l - 1) : inIndexBlock(n)
          /\ \E s \in DOMAIN slides :
                /\ slides[s].type = "section-title"
                /\ slides[s].title = trim(SubSeq(lines[l], 4, Len(lines[l])))

\* the lines between the H3 heading at line k and the next H2 or H3 heading
ownLines(k) == bodyOf(SubSeq(lines, k + 1, Len(lines)))

\* a source without index block, H1 line or subtitle line: every H3 opens a
\* subsection, and every other line is a heading or is accumulated
plainSource ==
    \A k \in DOMAIN lines :
        ~isTocHeading(lines[k]) /\ ~isH1(lines[k]) /\ ~isSubtitle(lines[k])

\* C18: every H3 line resets the accumulation buffer, so that a content slide is built
\* only from the lines between its own H3 heading and the next H2 or H3 heading;
\* lines before the H3 (after an H2, or before any heading) never appear in it.
C18_BufferResetAtH3 ==
    /\ (bpc = "loop" /\ lineNo >= 1 /\ isH3(lines[lineNo]) /\ ~inIndexBlock(lineNo)) =>
          buffer = <<>>
    /\ (Returned /\ plainSource) =>
          /\ Cardinality(indicesOfType(slides, "content")) = Cardinality(h3Positions)
          /\ \A j \in 1..Cardinality(h3Positions) :
                LET slide == slides[nth(indicesOfType(slides, "content"), j)]
                IN  slide = finalizeContentSlide(
                                [type |-> "content", title |-> slide.title,
                                 parentSection |-> slide.parentSection],
                                ownLines(nth(h3Positions, j)),
                                imagesDirOf(config), defaultDurationOf(config))

\* the headings of lines 1..n that open a slide, in source order: the H2 and H3 lines
\* outside index blocks, the subtitle line excepted
RECURSIVE slideHeadings(_)
slideHeadings(n) ==
    IF n = 0 THEN <<>>
    ELSE slideHeadings(n - 1) \o
         (IF inIndexBlock(n) \/ isSubtitle(lines[n]) THEN <<>>
          ELSE IF isH2(lines[n])
               THEN <<[type |-> "section-title",
                       title |-> trim(SubSeq(lines[n], 4, Len(lines[n])))]>>
          ELSE IF isH3(lines[n])
               THEN <<[type |-> "content",
                       title |-> trim(SubSeq(lines[n], 5, Len(lines[n])))]>>
          ELSE <<>>)

RECURSIVE headedSlides(_)
\* the section-title and content slides of a sequence, by type and title
headedSlides(ss) ==
    IF ss = <<>> THEN <<>>
    ELSE (IF Head(ss).type \in {"section-title", "content"}
          THEN <<[type |-> Head(ss).type, title |-> Head(ss).title]>>
          ELSE <<>>) \o headedSlides(Tail(ss))

sectionsBefore(k) == {i \in 1..(k - 1) : slides[i].type = "section-title"}

\* C19: in the returned sequence every content slide's parentSection is the title of
\* the nearest section-title slide before it, null when there is none, and the content
\* and section-title slides stand in the order of their headings in the source.
C19_ParentSection ==
    Returned =>
        /\ \A k \in indicesOfType(slides, "content") :
              slides[k].parentSection =
                  IF sectionsBefore(k) = {} THEN Null
                  ELSE slides[nth(sectionsBefore(k), Cardinality(sectionsBefore(k)))].title
        /\ headedSlides(slides) = slideHeadings(Len(lines))

C19_Witness ==
    /\ Returned
    /\ \E k, l \in DOMAIN slides :
          /\ k < l
          /\ slides[k].type = "content" /\ slides[k].parentSection # Null
          /\ slides[l].type = "section-title" /\ slides[l].title # slides[k].parentSection
    /\ \E k \in DOMAIN slides : slides[k].type = "content" /\ slides[k].parentSection = Null

\* C29: with or without a cover, the toc slide stands before every section-title slide
\* and every content slide of the returned sequence; without a cover it is the first
\* slide.
C29_TocBeforeSections ==
    Returned =>
        \A t \in indicesOfType(slides, "toc") :
            /\ \A k \in indicesOfType(slides, "section-title")
                            \cup indicesOfType(slides, "content") : t < k
            /\ ~config.cover.present => t = 1

-----------------------------------------------------------------------------
(* Properties of the animated export: the frames of a whole run *)

\* ceil(x * fps) for a rational x >= 0
ceilTimesFps(x) == ceilOf(x[1] * fpsOf(config)[1], x[2] * fpsOf(config)[2])

RECURSIVE slideFramesUpTo(_)
\* the sum of ceil(duration_i * fps) over the first n slides of the deck
slideFramesUpTo(n) ==
    IF n = 0 THEN 0 ELSE slideFramesUpTo(n - 1) + ceilTimesFps(deck[n].duration)

fading ==
    /\ transitionOf(config) \in {"crossfade", "fade-black"}
    /\ RLt(Whole(0), transitionDurationOf(config))

captured == apc \in {"close", "encode", "encoding", "done"}

\* C21: a run over n slides captures the sum of ceil(duration_i * fps) slide frames
\* plus (n - 1) * ceil(transitionDuration * fps) transition frames when the transition
\* is crossfade or fade-black with a positive duration, and no transition frame when
\* it is cut; no transition is captured after the last slide.
C21_FrameTotal ==
    /\ captured =>
          /\ Len(writes) = frameIndex
          /\ frameIndex =
                slideFramesUpTo(Len(deck))
                    + (IF fading
                       THEN (Len(deck) - 1) * ceilTimesFps(transitionDurationOf(config))
                       ELSE 0)
          /\ transitionOf(config) = "cut" => frameIndex = slideFramesUpTo(Len(deck))
    /\ (apc = "capture" /\ call.kind \in {"crossfade", "fade-black"}) =>
          /\ fading
          /\ call.kind = transitionOf(config)
          /\ call.slide + 1 < Len(deck)
          /\ call.totalFrames = ceilTimesFps(transitionDurationOf(config))
          /\ call.startFrame = slideFramesUpTo(call.slide + 1) + call.slide * call.totalFrames

C21_Witness ==
    /\ captured
    /\ Len(deck) >= 3
    /\ transitionOf(config) = "fade-black"
    /\ transitionDurationOf(config) = Whole(1)
    /\ fpsOf(config) = Whole(2)
    /\ frameIndex = slideFramesUpTo(Len(deck)) + 2 * (Len(deck) - 1)

crossfadeReturned == apc = "capture" /\ call.kind = "crossfade" /\ call.returned

\* C22: a crossfade transition of at least one frame renders only the incoming slide,
\* at phases that do not decrease and lie within [0, 1], the first 0 and the last 1.
C22_CrossfadePhases ==
    /\ (apc = "capture" /\ call.kind = "crossfade") =>
          \A k \in DOMAIN renders :
              /\ renders[k].slide = call.slide + 1
              /\ inUnitInterval(renders[k].phase)
              /\ \A j \in 1..(k - 1) : RLeq(renders[j].phase, renders[k].phase)
    /\ (crossfadeReturned /\ call.totalFrames >= 1) =>
          /\ Len(renders) = call.totalFrames
          /\ renders[1].phase = Whole(0)
          /\ renders[Len(renders)].phase = Whole(1)

-----------------------------------------------------------------------------
(* Properties of the clip-based export: the slides of scenes, the manifest *)

slideScenes == {i \in 0..(Len(scenes) - 1) : scenes[i + 1].type = "slide"}

\* C25: in hybrid mode every scene of type slide, whatever its slideType, becomes a
\* Slide record that renders at phase 1.0 and yields exactly one clip; rendering a
\* record built by buildSlideForScene never throws.
C25_SceneSlidesRender ==
    hybridRun =>
        /\ \A i \in slideScenes : ~renderThrows(buildSlideForScene(scenes[i + 1], config))
        /\ \A i \in slideScenes :
              i < slideIdx =>
                  Cardinality({k \in DOMAIN clipPaths :
                                  clipPaths[k] = inTmp(config, clipName(i))}) = 1
        /\ (cpc = "threw" /\ browser = "open" /\ slideIdx \in slideScenes) =>
              lastError.kind \in {"ffmpeg-failed", "ffmpeg-not-found"}

\* C30: in hybrid mode the duration handed to the encoder for the clip of a slide
\* scene is the duration of the Slide record buildSlideForScene built for that scene,
\* for every slideType, also when the scene gives no duration.
C30_ClipLastsAsSlide ==
    (hybridRun /\ cpc = "encoding" /\ pending.kind = "img-clip") =>
        ffmpegRuns[Len(ffmpegRuns)].duration =
            buildSlideForScene(scenes[slideIdx + 1], config).duration

-----------------------------------------------------------------------------
(* Properties of either export: the browser *)

exportEnded == apc \in {"done", "null", "threw"} \/ cpc \in {"done", "null", "threw"}

\* C28: every browser the export launched is closed before the export returns or
\* throws, on every path: a failed frame capture, a failed encode of a still and a
\* failed scene included.
C28_BrowserClosed == exportEnded => browser # "open"

slidesOnlyRun == cpc # "off" /\ ~hybridRun

\* the manifest line of the clip of index i < 10
manifestLine(i) ==
    <<"file '", "/", "d", "/", ".tutorial-video-tmp", "/", "clip-", "0", "0",
      DigitChars[i + 1], ".mp4", "'">>

\* C23: in slides-only mode the manifest has exactly one clip per slide returned by
\* buildSlides; its i-th entry is the clip encoded from the i-th slide, rendered once
\* at phase 1.0, with that slide's duration; none is missing or doubled.
C23_ManifestPerSlide ==
    (slidesOnlyRun /\ manifest # <<>>) =>
        /\ deck = buildSlides(config, lines)
        /\ Len(manifest) = Len(deck)
        /\ Len(renders) = Len(deck)
        /\ \A i \in DOMAIN deck :
              /\ manifest[i] = manifestLine(i - 1)
              /\ renders[i] = [slide |-> i - 1, phase |-> Whole(1)]
              /\ ffmpegRuns[i].label = "img-clip"
              /\ ffmpegRuns[i].duration = deck[i].duration
              /\ <<"file '">> \o ffmpegRuns[i].out \o <<"'">> = manifest[i]
              /\ ffmpegRuns[i].input # ffmpegRuns[i].out
              /\ \A j \in DOMAIN deck : ffmpegRuns[i].input = ffmpegRuns[j].input => i = j

C23_Witness ==
    /\ slidesOnlyRun
    /\ cpc = "done"
    /\ Len(deck) >= 4
    /\ deck[3].type = "section-title" /\ deck[4].type = "content"
    /\ manifest[4] = manifestLine(3)

\* the scene a manifest line belongs to, by the clip index in its file name
sceneOfLine(line) == CHOOSE i \in 0..9 : line = manifestLine(i)

contributes(scene) ==
    scene.type = "slide" \/ (scene.type = "recording" /\ scene.actions # "none")

\* C24: in hybrid mode the manifest is an order-preserving subsequence of the scene
\* list: every line is the clip of one scene, no scene has two lines, the file names
\* differ from scene to scene, and the lines stand in the order of their scenes.
C24_ManifestFollowsScenes ==
    (hybridRun /\ manifest # <<>>) =>
        /\ manifest = manifestOf(clipPaths)
        /\ \A k \in DOMAIN manifest :
              \E i \in 0..(Len(scenes) - 1) :
                  manifest[k] = manifestLine(i) /\ contributes(scenes[i + 1])
        /\ \A k, l \in DOMAIN manifest :
              k < l => sceneOfLine(manifest[k]) < sceneOfLine(manifest[l])

C24_Witness ==
    /\ hybridRun
    /\ cpc = "done"
    /\ scenes = MixedScenes
    /\ manifest = <<manifestLine(0), manifestLine(2), manifestLine(4)>>

-----------------------------------------------------------------------------
(* The renderer: renderSlide(slide, animationPhase), by the style values it writes *)

RMin(a, b) == IF RLt(a, b) THEN a ELSE b
RMax(a, b) == IF RLt(a, b) THEN b ELSE a

\* Math.max(0, Math.min(x, 1))
clamp(x) == RMax(Whole(0), RMin(x, Whole(1)))

\* one element with a style attribute: its opacity and the length of its translate
styled(element, opacity, offset) ==
    [element |-> element, opacity |-> opacity, offset |-> offset]

\* imgToBase64(imgPath): null for no path and for a missing file
imgToBase64(imgPath) == IF imgPath # NoPath /\ existsSync(imgPath) THEN imgPath ELSE NoPath

renderCover(slide, phase) ==
    LET titleOpacity == clamp(RMul(RSub(phase, Rat(2, 10)), Whole(2)))
        subtitleOpacity == clamp(RMul(RSub(phase, Rat(4, 10)), Whole(2)))
        metaOpacity == clamp(RMul(RSub(phase, Rat(6, 10)), Whole(2)))
    IN  (IF imgToBase64(slide.logo) # NoPath
         THEN <<styled("cover-logo", RMin(RMul(phase, Whole(2)), Whole(1)), Whole(0))>>
         ELSE <<>>)
        \o <<styled("cover-divider", titleOpacity, Whole(0)),
             styled("cover-title", titleOpacity, Whole(0))>>
        \o (IF slide.subtitle # <<>>
            THEN <<styled("cover-subtitle", subtitleOpacity, Whole(0))>> ELSE <<>>)
        \o <<styled("cover-divider", metaOpacity, Whole(0)),
             styled("cover-meta", metaOpacity, Whole(0))>>
        \o (IF slide.footer # <<>>
            THEN <<styled("cover-footer", metaOpacity, Whole(0))>> ELSE <<>>)

renderTOC(slide, phase) ==
    [k \in DOMAIN slide.items |->
        LET itemPhase == clamp(RMul(RSub(phase, RMul(Whole(k - 1), Rat(3, 100))), Whole(3)))
        IN  styled("li", itemPhase, RMul(RSub(Whole(1), itemPhase), Whole(30)))]

renderSectionTitle(slide, phase) ==
    (IF slide.sectionNumber # <<>>
     THEN <<styled("section-number", RMin(RMul(phase, Whole(3)), Whole(1)), Whole(0))>>
     ELSE <<>>)
    \o <<styled("section-heading",
                clamp(RMul(RSub(phase, Rat(15, 100)), Rat(25, 10))), Whole(0))>>

renderContent(slide, phase) ==
    LET items == IF Len(slide.steps) > 0 THEN slide.steps ELSE slide.bullets
        prosePhase == clamp(RMul(RSub(phase, Rat(2, 10)), Whole(2)))
        imgPhase == clamp(RMul(RSub(phase, Rat(3, 10)), Whole(2)))
    IN  <<styled("content-title", RMin(RMul(phase, Whole(3)), Whole(1)), Whole(0))>>
        \o (IF Len(items) > 0
            THEN [k \in DOMAIN items |->
                    LET itemPhase ==
                            clamp(RMul(RSub(RSub(phase, Rat(15, 100)),
                                            RMul(Whole(k - 1), Rat(4, 100))), Whole(3)))
                    IN  styled("li", itemPhase, RMul(RSub(Whole(1), itemPhase), Whole(15)))]
            ELSE IF slide.prose # <<>>
            THEN <<styled("content-prose", prosePhase, Whole(0))>>
            ELSE <<>>)
        \o (IF Len(slide.images) > 0 /\ imgToBase64(slide.images[1].path) # NoPath
            THEN <<styled("content-image", imgPhase, Whole(0))>>
            ELSE <<>>)

renderClosing(slide, phase) ==
    <<styled("closing-content", RMin(RMul(phase, Whole(2)), Whole(1)), Whole(0))>>

\* switch (slide.type); the default branch writes a paragraph without style
renderSlide(slide, phase) ==
    IF slide.type = "cover" THEN renderCover(slide, phase)
    ELSE IF slide.type = "toc" THEN renderTOC(slide, phase)
    ELSE IF slide.type = "section-title" THEN renderSectionTitle(slide, phase)
    ELSE IF slide.type = "content" THEN renderContent(slide, phase)
    ELSE IF slide.type = "closing" THEN renderClosing(slide, phase)
    ELSE <<>>

MaxItems == 24

Items(n) == [k \in 1..n |-> <<"A">>]

\* slides as the renderer reads them: the fields its templates use
RenderSlides ==
    {[type |-> "cover", title |-> <<"T">>, subtitle |-> s, footer |-> f, logo |-> l] :
        s \in {<<>>, <<"S">>}, f \in {<<>>, <<"F">>}, l \in {NoPath, ImageOnDisk}}
    \cup {[type |-> "toc", title |-> <<"I">>, items |-> Items(n)] : n \in 0..MaxItems}
    \cup {[type |-> "section-title", title |-> <<"A">>, sectionNumber |-> s] :
            s \in {<<>>, <<"1">>}}
    \cup {[type |-> "content", title |-> <<"B">>, steps |-> Items(n), bullets |-> Items(m),
           prose |-> p, images |-> i] :
            n \in 0..MaxItems, m \in {0, 1}, p \in {<<"P">>},
            i \in {<<>>, <<[alt |-> <<"x">>, path |-> ImageOnDisk]>>}}
    \cup {[type |-> "content", title |-> <<"B">>, steps |-> <<>>, bullets |-> Items(m),
           prose |-> p, images |-> <<>>] : m \in 0..MaxItems, p \in {<<>>, <<"P">>}}
    \cup {[type |-> "closing", title |-> <<"F">>, subtitle |-> <<"T">>],
          [type |-> "note", title |-> <<>>]}

\* phases the timing engine produces, the ends of [0, 1] among them
RenderPhases == {Whole(0), Rat(1, 10), Rat(1, 3), Rat(1, 2), Rat(17, 20), Whole(1)}

InitRender ==
    /\ config \in {Config(NoCover, VideoCfg(Undefined, Undefined, "", Undefined))}
    /\ lines = <<>>
    /\ files \in {{ImageOnDisk}, {}}
    /\ bpc = "off"
    /\ ParseIdle
    /\ apc = "off"
    /\ framesDir = NoDirectory
    /\ AnimIdle
    /\ EncoderIdle
    /\ cpc = "off"
    /\ tmpDir = NoTmpDir
    /\ ClipIdle
    /\ rpc = "off"
    /\ rargs = NoArgs
    /\ rets = <<>>
    /\ mpc = "off"
    /\ argv = <<>>
    /\ exportsRun = <<>>
    /\ hpc = "start"
    /\ hargs \in [slide : RenderSlides, phase : RenderPhases]
    /\ styles = <<>>
    /\ spc = "off"
    /\ program = <<>>
    /\ started = 0
    /\ inflight = {}
    /\ oplog = <<>>

\* renderSlide(slide, animationPhase)
RenderCall ==
    /\ hpc = "start"
    /\ styles' = renderSlide(hargs.slide, hargs.phase)
    /\ hpc' = "done"
    /\ UNCHANGED <<envVars, parseVars, animVars, encVars, clipVars, resolveVars, cliVars,
                   hargs, serialVars>>

NextRender == RenderCall

SpecRender == InitRender /\ [][NextRender]_vars

-----------------------------------------------------------------------------
(* Properties of the renderer *)

\* C26: at phase 1.0 every animated element of every slide type is fully revealed,
\* opacity exactly 1 and offset 0, for every TOC item and every list item however
\* many there are; at every phase within [0, 1] every opacity lies within [0, 1].
C26_FullyRevealed ==
    hpc = "done" =>
        \A k \in DOMAIN styles :
            /\ inUnitInterval(styles[k].opacity)
            /\ hargs.phase = Whole(1) =>
                  styles[k].opacity = Whole(1) /\ styles[k].offset = Whole(0)

-----------------------------------------------------------------------------
(* The exports by their awaits: every operation the program starts on the *)
(* browser, a page or an encoder, and the moment the program goes on      *)

RECURSIVE flatten(_)
flatten(seqs) == IF seqs = <<>> THEN <<>> ELSE Head(seqs) \o flatten(Tail(seqs))

NoPage == -1
NoFrame == -1
SharedPage == 0

\* one asynchronous call: what is called, on which page, for which frame or clip
operation(kind, page, frame) == [kind |-> kind, page |-> page, frame |-> frame]

\* for (let f = 0; f < totalFrames; f++): setContent, the pause on the first
\* frame, screenshot
captureSlideFramesOps(totalFrames, startFrame) ==
    flatten([k \in 1..totalFrames |->
        <<operation("setContent", SharedPage, startFrame + k - 1)>>
        \o (IF k = 1 THEN <<operation("waitForTimeout", SharedPage, startFrame)>> ELSE <<>>)
        \o <<operation("screenshot", SharedPage, startFrame + k - 1)>>])

\* captureTransitionFrames and the fade-black loop: setContent, screenshot
captureTransitionFramesOps(totalFrames, startFrame) ==
    flatten([k \in 1..totalFrames |->
        <<operation("setContent", SharedPage, startFrame + k - 1),
          operation("screenshot", SharedPage, startFrame + k - 1)>>])

\* the animated export of count slides, each of perSlide frames, with transitions
\* of perTransition frames
animatedOps(count, perSlide, perTransition) ==
    <<operation("launch", NoPage, NoFrame), operation("newContext", NoPage, NoFrame),
      operation("newPage", SharedPage, NoFrame)>>
    \o flatten([i \in 1..count |->
            captureSlideFramesOps(perSlide, (i - 1) * (perSlide + perTransition))
            \o (IF i < count
                THEN captureTransitionFramesOps(perTransition,
                         (i - 1) * (perSlide + perTransition) + perSlide)
                ELSE <<>>)])
    \o <<operation("close", SharedPage, NoFrame), operation("close", NoPage, NoFrame),
         operation("ffmpeg", NoPage, NoFrame)>>

\* the slides-only export of count slides: one page, a clip after each screenshot
slidesOnlyOps(count) ==
    <<operation("launch", NoPage, NoFrame), operation("newContext", NoPage, NoFrame),
      operation("newPage", SharedPage, NoFrame)>>
    \o flatten([i \in 1..count |->
            <<operation("setContent", SharedPage, i - 1)>>
            \o (IF i = 1 THEN <<operation("waitForTimeout", SharedPage, 0)>> ELSE <<>>)
            \o <<operation("screenshot", SharedPage, i - 1),
                 operation("ffmpeg", NoPage, i - 1)>>])
    \o <<operation("close", SharedPage, NoFrame), operation("close", NoPage, NoFrame),
         operation("ffmpeg", NoPage, NoFrame)>>

\* the hybrid export of count slide scenes: a context and a page of its own for
\* each scene
hybridOps(count) ==
    <<operation("launch", NoPage, NoFrame)>>
    \o flatten([i \in 1..count |->
            <<operation("newContext", NoPage, NoFrame),
              operation("newPage", i, NoFrame),
              operation("setContent", i, i - 1)>>
            \o (IF i = 1 THEN <<operation("waitForTimeout", i, 0)>> ELSE <<>>)
            \o <<operation("screenshot", i, i - 1),
                 operation("close", i, NoFrame),
                 operation("ffmpeg", NoPage, i - 1)>>])
    \o <<operation("close", NoPage, NoFrame), operation("ffmpeg", NoPage, NoFrame)>>

MaxDeck == 2
MaxShots == 2

Programs ==
    {animatedOps(count, perSlide, perTransition) :
        count \in 1..MaxDeck, perSlide \in 1..MaxShots, perTransition \in 0..1}
    \cup {slidesOnlyOps(count) : count \in 1..MaxDeck}
    \cup {hybridOps(count) : count \in 1..MaxDeck}

\* await: the program goes on when the promise it waits for has settled
resumesAtOnce(no, pendingOps) == TRUE

resumes(no, pendingOps) == \A op \in pendingOps : op.no # no

InitSerial ==
    /\ config \in {Config(NoCover, VideoCfg(Undefined, Undefined, "", Undefined))}
    /\ lines = <<>>
    /\ files = {}
    /\ bpc = "off"
    /\ ParseIdle
    /\ apc = "off"
    /\ framesDir = NoDirectory
    /\ AnimIdle
    /\ EncoderIdle
    /\ cpc = "off"
    /\ tmpDir = NoTmpDir
    /\ ClipIdle
    /\ rpc = "off"
    /\ rargs = NoArgs
    /\ rets = <<>>
    /\ mpc = "off"
    /\ argv = <<>>
    /\ exportsRun = <<>>
    /\ hpc = "off"
    /\ hargs = NoRender
    /\ styles = <<>>
    /\ spc = "run"
    /\ program \in Programs
    /\ started = 0
    /\ inflight = {}
    /\ oplog = <<>>

\* the program reaches its next call: the operation starts, and the program
\* waits for it
SerialCall ==
    /\ spc = "run"
    /\ started < Len(program)
    /\ resumes(started, inflight)
    /\ LET op == [no |-> started + 1] @@ program[started + 1]
       IN  /\ inflight' = inflight \cup {op}
           /\ oplog' = Append(oplog, [ev |-> "start"] @@ op)
    /\ started' = started + 1
    /\ UNCHANGED <<envVars, parseVars, animVars, encVars, clipVars, resolveVars, cliVars,
                   renderVars, spc, program>>

\* the browser or the encoder finishes an operation: its promise resolves
SerialSettle ==
    /\ \E op \in inflight :
          /\ inflight' = inflight \ {op}
          /\ oplog' = Append(oplog, [ev |-> "end"] @@ op)
    /\ UNCHANGED <<envVars, parseVars, animVars, encVars, clipVars, resolveVars, cliVars,
                   renderVars, spc, program, started>>

\* the operation fails: its promise rejects, and the awaiting export throws
SerialReject ==
    /\ spc = "run"
    /\ \E op \in inflight :
          /\ op.kind # "waitForTimeout"
          /\ inflight' = inflight \ {op}
          /\ oplog' = Append(oplog, [ev |-> "error"] @@ op)
          /\ spc' = IF op.no = started THEN "failed" ELSE spc
    /\ UNCHANGED <<envVars, parseVars, animVars, encVars, clipVars, resolveVars, cliVars,
                   renderVars, program, started>>

\* the last operation has settled: the export returns
SerialReturn ==
    /\ spc = "run"
    /\ started = Len(program)
    /\ resumes(started, inflight)
    /\ spc' = "done"
    /\ UNCHANGED <<envVars, parseVars, animVars, encVars, clipVars, resolveVars, cliVars,
                   renderVars, program, started, inflight, oplog>>

NextSerial == SerialCall \/ SerialSettle \/ SerialReject \/ SerialReturn

SpecSerial == InitSerial /\ [][NextSerial]_vars

-----------------------------------------------------------------------------
(* Properties of the exports by their awaits *)

\* the screenshots started, by their place in the log
shotsStarted == {k \in DOMAIN oplog : oplog[k].ev = "start" /\ oplog[k].kind = "screenshot"}

\* the last event before k that is about a setContent on the page of event k
lastContentBefore(k) ==
    LET earlier == {j \in 1..(k - 1) :
                        oplog[j].kind = "setContent" /\ oplog[j].page = oplog[k].page}
    IN  IF earlier = {} THEN 0 ELSE CHOOSE j \in earlier : \A i \in earlier : i <= j

\* C27: the operations on the page are serialized: when a screenshot starts, the
\* last setContent event on its page is the completion of the setContent of the
\* same frame; no two screenshots are under way together; at most one encoder
\* process runs at any time.
C27_Serialized ==
    /\ \A k \in shotsStarted :
          /\ lastContentBefore(k) # 0
          /\ oplog[lastContentBefore(k)].ev = "end"
          /\ oplog[lastContentBefore(k)].frame = oplog[k].frame
    /\ Cardinality({op \in inflight : op.kind = "screenshot"}) <= 1
    /\ Cardinality({op \in inflight : op.kind = "ffmpeg"}) <= 1
    /\ \A op \in inflight : op.kind = "screenshot" =>
          \A other \in inflight : other.kind = "setContent" => other.page # op.page

\* a slides-only export of two slides has returned: two screenshots and three
\* encoder runs are in the log
C27_Witness ==
    /\ spc = "done"
    /\ program = slidesOnlyOps(2)
    /\ Cardinality(shotsStarted) = 2
    /\ Cardinality({k \in DOMAIN oplog : oplog[k].ev = "end" /\ oplog[k].kind = "ffmpeg"}) = 3

=============================================================================
